---- MODULE Spec2Model ----
(***************************************************************************)
(* A model of the Premier League dashboard (src/src/App.tsx): the score    *)
(* parser, the useMemo aggregators, the CSV upload handler and the         *)
(* selection handlers of the App component.                                *)
(*                                                                         *)
(* Conventions.                                                            *)
(*  - A JavaScript string is a TLA+ string.  TLA+ strings are ASCII, so    *)
(*    the en-dash U+2013 on which parseScore splits is written "~"         *)
(*    (EnDash); the hyphen-minus stays "-".                                *)
(*  - A JavaScript number is a record [nan, num, den]: NaN, or the exact   *)
(*    rational num/den in lowest terms with den > 0.  IEEE-754 rounding is *)
(*    not modelled.                                                        *)
(*  - The JavaScript value undefined, where a string is expected, is the   *)
(*    reserved string Undefined.                                           *)
(***************************************************************************)
EXTENDS Integers, Sequences, FiniteSets, TLC

VARIABLES
    data,          \* useState data: the rows, in upload order
    error,         \* useState error
    selectedTeam,  \* useState selectedTeam ("" is All Teams)
    compareTeam,   \* useState compareTeam ("" is none)
    activeWeek,    \* useState activeWeek
    readers,       \* the texts of the FileReaders whose onload has not run yet
    scoreArg,      \* the argument of a direct call of parseScore
    scoreResult    \* what that call returned

vars == <<data, error, selectedTeam, compareTeam, activeWeek, readers,
          scoreArg, scoreResult>>

(***************************************************************************)
(* Bounds of the model.                                                    *)
(***************************************************************************)
MaxScoreLen == 3   \* longest score string enumerated for parseScore
MaxRows == 3       \* most rows of a dataset the aggregators are started on
MaxPending == 2    \* most file reads in flight at once

(***************************************************************************)
(* JavaScript numbers.                                                     *)
(***************************************************************************)
Abs(x) == IF x < 0 THEN -x ELSE x

RECURSIVE GCD(_, _)
GCD(a, b) == IF b = 0 THEN a ELSE GCD(b, a % b)

NaN == [nan |-> TRUE, num |-> 0, den |-> 1]

\* The number n/d (d # 0) in lowest terms.
Frac(n, d) ==
    LET g == GCD(Abs(n), Abs(d))
        s == IF d < 0 THEN -1 ELSE 1
    IN [nan |-> FALSE, num |-> s * (n \div g), den |-> s * (d \div g)]

Int2Num(n) == [nan |-> FALSE, num |-> n, den |-> 1]

Zero == Int2Num(0)

\* a + b
NumAdd(a, b) ==
    IF a.nan \/ b.nan THEN NaN
    ELSE Frac(a.num * b.den + b.num * a.den, a.den * b.den)

\* a - b
NumSub(a, b) ==
    IF a.nan \/ b.nan THEN NaN
    ELSE Frac(a.num * b.den - b.num * a.den, a.den * b.den)

\* a * b
NumMul(a, b) ==
    IF a.nan \/ b.nan THEN NaN
    ELSE Frac(a.num * b.num, a.den * b.den)

\* a / b: 0/0 is NaN; x/0 with x # 0 is an infinity, written num = +-1, den = 0.
NumDiv(a, b) ==
    IF a.nan \/ b.nan THEN NaN
    ELSE IF b.num = 0
         THEN IF a.num = 0 THEN NaN
              ELSE [nan |-> FALSE, num |-> IF a.num < 0 THEN -1 ELSE 1, den |-> 0]
         ELSE Frac(a.num * b.den, a.den * b.num)

\* a < b, a > b, a === b: every comparison with NaN is false.
NumLt(a, b) == ~a.nan /\ ~b.nan /\ a.num * b.den < b.num * a.den
NumGt(a, b) == NumLt(b, a)
NumEq(a, b) == ~a.nan /\ ~b.nan /\ a.num * b.den = b.num * a.den

\* ToBoolean of a number: NaN and 0 are falsy.
Truthy(a) == ~a.nan /\ a.num # 0

\* A faulty variant of OrZero: the fallback "|| 0" left out.
OrZeroForgotten(a) == a

\* x || 0
OrZero(a) == IF Truthy(a) THEN a ELSE Zero

(***************************************************************************)
(* JavaScript strings.                                                     *)
(***************************************************************************)
EnDash == "~"
Undefined == ","

Digits == {"0", "1", "2", "3", "4", "5", "6", "7", "8", "9"}

DigitVal(c) ==
    CASE c = "0" -> 0 [] c = "1" -> 1 [] c = "2" -> 2 [] c = "3" -> 3
      [] c = "4" -> 4 [] c = "5" -> 5 [] c = "6" -> 6 [] c = "7" -> 7
      [] c = "8" -> 8 [] c = "9" -> 9

StrWhiteSpace == {" ", "\t", "\r", "\n"}

RECURSIVE TrimLeft(_)
TrimLeft(s) ==
    IF s # "" /\ Head(s) \in StrWhiteSpace THEN TrimLeft(Tail(s)) ELSE s

RECURSIVE TrimRight(_)
TrimRight(s) ==
    IF s # "" /\ SubSeq(s, Len(s), Len(s)) \in StrWhiteSpace
    THEN TrimRight(SubSeq(s, 1, Len(s) - 1))
    ELSE s

\* The length of the longest prefix of s made of digits.
RECURSIVE DigitPrefixLen(_)
DigitPrefixLen(s) ==
    IF s # "" /\ Head(s) \in Digits THEN 1 + DigitPrefixLen(Tail(s)) ELSE 0

\* The value of the digit string s read in radix 10, after the value acc.
RECURSIVE DigitsValue(_, _)
DigitsValue(s, acc) ==
    IF s = "" THEN acc ELSE DigitsValue(Tail(s), 10 * acc + DigitVal(Head(s)))

\* String.prototype.split with a one-character separator.
\* The pieces lie between consecutive separators: with the separators at
\* positions p1 < ... < pn, piece k runs from p(k-1) + 1 to pk - 1, where p0 is 0
\* and p(n+1) is one past the end.  A string without separator is one piece.
Split(s, sep) ==
    LET pos == {i \in 1..Len(s) : SubSeq(s, i, i) = sep}
        n == Cardinality(pos)
        at(k) == IF k = 0 THEN 0
                 ELSE IF k = n + 1 THEN Len(s) + 1
                 ELSE CHOOSE p \in pos : Cardinality({q \in pos : q < p}) = k - 1
    IN [k \in 1..(n + 1) |-> SubSeq(s, at(k - 1) + 1, at(k) - 1)]

\* parts[i] of a JavaScript array, 0-based: undefined past the end.
ArrayAt(parts, i) == IF i + 1 <= Len(parts) THEN parts[i + 1] ELSE Undefined

\* ToString of an argument that is a string or undefined.
JSToString(v) == IF v = Undefined THEN "undefined" ELSE v

\* parseInt(v, 10): leading white space is skipped, a sign is read, then the
\* longest run of digits; NaN when there is no digit.
parseInt(v) ==
    LET s == TrimLeft(JSToString(v))
        neg == s # "" /\ Head(s) = "-"
        body == IF s # "" /\ Head(s) \in {"+", "-"} THEN Tail(s) ELSE s
        n == DigitPrefixLen(body)
        val == DigitsValue(SubSeq(body, 1, n), 0)
    IN IF n = 0 THEN NaN ELSE Int2Num(IF neg THEN -val ELSE val)

RECURSIVE Pow10(_)
Pow10(n) == IF n = 0 THEN 1 ELSE 10 * Pow10(n - 1)

\* Number(v), the unary plus of the upload handler: white space is trimmed, the
\* empty string is 0, a signed decimal literal is its value, undefined and
\* everything else is NaN.  (Hexadecimal, exponent and Infinity literals are
\* not modelled; no modelled field holds one.)
ToNumber(v) ==
    IF v = Undefined THEN NaN
    ELSE LET s == TrimRight(TrimLeft(v))
             neg == s # "" /\ Head(s) = "-"
             body == IF s # "" /\ Head(s) \in {"+", "-"} THEN Tail(s) ELSE s
             n == DigitPrefixLen(body)
             rest == SubSeq(body, n + 1, Len(body))
             hasDot == rest # "" /\ Head(rest) = "."
             frac == IF hasDot THEN Tail(rest) ELSE ""
             m == DigitPrefixLen(frac)
             wellFormed == /\ n + m > 0
                           /\ IF hasDot THEN m = Len(frac) ELSE rest = ""
             mag == DigitsValue(SubSeq(body, 1, n) \o frac, 0)
         IN IF s = "" THEN Zero
            ELSE IF ~wellFormed THEN NaN
            ELSE Frac(IF neg THEN -mag ELSE mag, Pow10(m))

\* new Date(v).getTime() for a date-only ISO string YYYY-MM-DD, which is read
\* as UTC midnight; NaN for undefined and for any other text of the modelled
\* alphabet.  The unit is the day (milliseconds / 86400000): TLC's integers
\* are 32 bits wide.  Only the sign of a difference of two times is used.
getTime(v) ==
    LET wellFormed == /\ v # Undefined
                      /\ Len(v) = 10
                      /\ \A i \in {1, 2, 3, 4, 6, 7, 9, 10} : SubSeq(v, i, i) \in Digits
                      /\ SubSeq(v, 5, 5) = "-"
                      /\ SubSeq(v, 8, 8) = "-"
        y == DigitsValue(SubSeq(v, 1, 4), 0)
        m == DigitsValue(SubSeq(v, 6, 7), 0)
        d == DigitsValue(SubSeq(v, 9, 10), 0)
        yy == IF m <= 2 THEN y - 1 ELSE y
        era == yy \div 400
        yoe == yy - era * 400
        mp == IF m > 2 THEN m - 3 ELSE m + 9
        doy == (153 * mp + 2) \div 5 + d - 1
        doe == yoe * 365 + yoe \div 4 - yoe \div 100 + doy
    IN IF wellFormed /\ m \in 1..12 /\ d \in 1..31
       THEN Int2Num(era * 146097 + doe - 719468)
       ELSE NaN

\* String.prototype.endsWith
EndsWith(s, suffix) ==
    /\ Len(s) >= Len(suffix)
    /\ SubSeq(s, Len(s) - Len(suffix) + 1, Len(s)) = suffix

\* ToBoolean of a string or undefined.
TruthyStr(v) == v # Undefined /\ v # ""

(***************************************************************************)
(* Array.prototype.sort((a, b) => key(a) - key(b)) on a sequence of        *)
(* [key, item] pairs.  The sort is stable (ECMAScript 2019) and a          *)
(* comparator result of NaN counts as 0.  With keys that are all numbers   *)
(* every conforming engine returns this order.                             *)
(***************************************************************************)
ComparePositive(a, b) == NumGt(NumSub(a.key, b.key), Zero)

\* x put into the sorted sequence s, after every element not greater than it.
RECURSIVE InsertSorted(_, _)
InsertSorted(s, x) ==
    IF s = <<>> THEN <<x>>
    ELSE IF ComparePositive(s[Len(s)], x)
         THEN InsertSorted(SubSeq(s, 1, Len(s) - 1), x) \o <<s[Len(s)]>>
         ELSE s \o <<x>>

RECURSIVE SortPrefix(_, _)
SortPrefix(s, n) ==
    IF n = 0 THEN <<>> ELSE InsertSorted(SortPrefix(s, n - 1), s[n])

SortByKey(s) == SortPrefix(s, Len(s))

Items(s) == [i \in 1..Len(s) |-> s[i].item]

\* [...new Set(s)]: the distinct elements of s in the order of first occurrence.
RECURSIVE Distinct(_)
Distinct(s) ==
    IF s = <<>> THEN <<>>
    ELSE LET before == Distinct(SubSeq(s, 1, Len(s) - 1))
             x == s[Len(s)]
         IN IF \E i \in 1..Len(before) : before[i] = x THEN before
            ELSE before \o <<x>>

Range(s) == {s[i] : i \in 1..Len(s)}

(***************************************************************************)
(* A JavaScript Map, in insertion order: a sequence of [key, value].       *)
(***************************************************************************)
MapHas(map, k) == \E i \in 1..Len(map) : map[i].key = k

MapGet(map, k, default) ==
    IF MapHas(map, k)
    THEN map[CHOOSE i \in 1..Len(map) : map[i].key = k].value
    ELSE default

MapSet(map, k, v) ==
    IF MapHas(map, k)
    THEN [i \in 1..Len(map) |-> IF map[i].key = k THEN [key |-> k, value |-> v]
                                ELSE map[i]]
    ELSE map \o <<[key |-> k, value |-> v]>>

(***************************************************************************)
(* parseScore.  score.split throws a TypeError when score is undefined.    *)
(***************************************************************************)
ParseScoreThrows(score) == score = Undefined

parseScore(score) ==
    IF ParseScoreThrows(score)
    THEN [thrown |-> TRUE, homeGoals |-> Zero, awayGoals |-> Zero]
    ELSE LET parts == Split(score, EnDash)
         IN [thrown |-> FALSE,
             homeGoals |-> OrZero(parseInt(ArrayAt(parts, 0))),
             awayGoals |-> OrZero(parseInt(ArrayAt(parts, 1)))]

(***************************************************************************)
(* MatchData rows.                                                         *)
(***************************************************************************)
Row(wk, day, date, time, home, xg, sc, xga, away, att, venue, ref) ==
    [Wk |-> wk, Day |-> day, Date |-> date, Time |-> time, Home |-> home,
     xG |-> xg, Score |-> sc, xG_away |-> xga, Away |-> away,
     Attendance |-> att, Venue |-> venue, Referee |-> ref]

defaultData ==
    << Row(Int2Num(1), "Fri", "2024-08-16", "20:00", "Manchester Utd", Frac(24, 10),
           "1~0", Frac(4, 10), "Fulham", "73,297", "Old Trafford", "Robert Jones"),
       Row(Int2Num(1), "Sat", "2024-08-17", "12:30", "Ipswich Town", Frac(5, 10),
           "0~2", Frac(26, 10), "Liverpool", "30,014", "Portman Road Stadium", "Tim Robinson"),
       Row(Int2Num(1), "Sat", "2024-08-17", "15:00", "Newcastle Utd", Frac(3, 10),
           "1~0", Frac(18, 10), "Southampton", "52,196", "St James' Park", "Craig Pawson"),
       Row(Int2Num(1), "Sat", "2024-08-17", "15:00", "Everton", Frac(5, 10),
           "0~3", Frac(14, 10), "Brighton", "39,217", "Goodison Park", "Simon Hooper"),
       Row(Int2Num(2), "Sat", "2024-08-24", "15:00", "Manchester Utd", Frac(18, 10),
           "2~1", Frac(12, 10), "Liverpool", "74,000", "Old Trafford", "Anthony Taylor"),
       Row(Int2Num(2), "Sun", "2024-08-25", "14:00", "Fulham", Frac(10, 10),
           "1~1", Frac(15, 10), "Newcastle Utd", "25,000", "Craven Cottage", "Michael Oliver") >>

\* One element of lines.slice(1).map(...): a CSV line as a row.
ParseLine(line) ==
    LET f == Split(line, ",")
    IN Row(ToNumber(ArrayAt(f, 0)), ArrayAt(f, 1), ArrayAt(f, 2), ArrayAt(f, 3),
           ArrayAt(f, 4), ToNumber(ArrayAt(f, 5)), ArrayAt(f, 6),
           ToNumber(ArrayAt(f, 7)), ArrayAt(f, 8), ArrayAt(f, 9), ArrayAt(f, 10),
           ArrayAt(f, 11))

\* A faulty variant of CompleteRow: the filter without its row.Away test.
CompleteRowNoAway(row) == Truthy(row.Wk) /\ TruthyStr(row.Home)

\* The filter of the upload handler: row.Wk && row.Home && row.Away.
CompleteRow(row) == Truthy(row.Wk) /\ TruthyStr(row.Home) /\ TruthyStr(row.Away)

\* lines.slice(1).map(...).filter(...)
RECURSIVE ParseRows(_, _)
ParseRows(lines, i) ==
    IF i > Len(lines) THEN <<>>
    ELSE LET row == ParseLine(lines[i])
         IN (IF CompleteRow(row) THEN <<row>> ELSE <<>>) \o ParseRows(lines, i + 1)

\* Whether some call parseScore(d[i].Score), i in idx, throws.
ScoreThrows(d, idx) == \E i \in idx : ParseScoreThrows(d[i].Score)

\* The rows of d in which team plays, in the order of d.
RECURSIVE TeamRows(_, _)
TeamRows(d, team) ==
    IF d = <<>> THEN <<>>
    ELSE (IF Head(d).Home = team \/ Head(d).Away = team THEN <<Head(d)>> ELSE <<>>)
         \o TeamRows(Tail(d), team)

(***************************************************************************)
(* teams: [...new Set(data.map(d => d.Home).concat(data.map(d => d.Away)))]*)
(***************************************************************************)
teams(d) ==
    Distinct([i \in 1..Len(d) |-> d[i].Home] \o [i \in 1..Len(d) |-> d[i].Away])

(***************************************************************************)
(* teamGoals, the Team Goal-Rate Aggregator.                               *)
(***************************************************************************)
NoGoalStats == [goals |-> Zero, matches |-> Zero]

\* A faulty variant of teamGoalsLoop: the away side is credited with homeGoals.
RECURSIVE teamGoalsLoopHomeGoalsTwice(_, _, _)
teamGoalsLoopHomeGoalsTwice(d, i, map) ==
    IF i > Len(d) THEN map
    ELSE LET match == d[i]
             sc == parseScore(match.Score)
             h0 == MapGet(map, match.Home, NoGoalStats)
             m1 == MapSet(map, match.Home,
                          [goals |-> NumAdd(h0.goals, sc.homeGoals),
                           matches |-> NumAdd(h0.matches, Int2Num(1))])
             a0 == MapGet(m1, match.Away, NoGoalStats)
             m2 == MapSet(m1, match.Away,
                          [goals |-> NumAdd(a0.goals, sc.homeGoals),
                           matches |-> NumAdd(a0.matches, Int2Num(1))])
         IN teamGoalsLoopHomeGoalsTwice(d, i + 1, m2)

\* The forEach of teamGoals from row i on, statsByTeam being map.
RECURSIVE teamGoalsLoop(_, _, _)
teamGoalsLoop(d, i, map) ==
    IF i > Len(d) THEN map
    ELSE LET match == d[i]
             sc == parseScore(match.Score)
             h0 == MapGet(map, match.Home, NoGoalStats)
             m1 == MapSet(map, match.Home,
                          [goals |-> NumAdd(h0.goals, sc.homeGoals),
                           matches |-> NumAdd(h0.matches, Int2Num(1))])
             a0 == MapGet(m1, match.Away, NoGoalStats)
             m2 == MapSet(m1, match.Away,
                          [goals |-> NumAdd(a0.goals, sc.awayGoals),
                           matches |-> NumAdd(a0.matches, Int2Num(1))])
         IN teamGoalsLoop(d, i + 1, m2)

statsByTeam(d) == teamGoalsLoop(d, 1, <<>>)

\* A faulty variant of teamGoalsEntries: the sort is ascending.
RECURSIVE teamGoalsEntriesAscending(_)
teamGoalsEntriesAscending(map) ==
    IF map = <<>> THEN <<>>
    ELSE LET e == Head(map)
             gpm == NumDiv(e.value.goals, e.value.matches)
         IN (IF NumGt(e.value.matches, Zero)
             THEN <<[key |-> gpm,
                     item |-> [team |-> e.key, goalsPerMatch |-> gpm]]>>
             ELSE <<>>) \o teamGoalsEntriesAscending(Tail(map))

\* The entries with matches > 0, each as {team, goalsPerMatch}, keyed for the
\* sort (a, b) => b.goalsPerMatch - a.goalsPerMatch.
RECURSIVE teamGoalsEntries(_)
teamGoalsEntries(map) ==
    IF map = <<>> THEN <<>>
    ELSE LET e == Head(map)
             gpm == NumDiv(e.value.goals, e.value.matches)
         IN (IF NumGt(e.value.matches, Zero)
             THEN <<[key |-> NumSub(Zero, gpm),
                     item |-> [team |-> e.key, goalsPerMatch |-> gpm]]>>
             ELSE <<>>) \o teamGoalsEntries(Tail(map))

\* A faulty variant of teamGoals: only the rows of the active week are counted,
\* so that the list depends on state other than the dataset.
RECURSIVE RowsOfActiveWeek(_)
RowsOfActiveWeek(d) ==
    IF d = <<>> THEN <<>>
    ELSE (IF Head(d).Wk = activeWeek THEN <<Head(d)>> ELSE <<>>)
         \o RowsOfActiveWeek(Tail(d))

teamGoalsOfActiveWeek(d) ==
    IF ScoreThrows(d, 1..Len(d)) THEN [thrown |-> TRUE, value |-> <<>>]
    ELSE [thrown |-> FALSE,
          value |-> Items(SortByKey(teamGoalsEntries(statsByTeam(RowsOfActiveWeek(d)))))]

teamGoals(d) ==
    IF ScoreThrows(d, 1..Len(d)) THEN [thrown |-> TRUE, value |-> <<>>]
    ELSE [thrown |-> FALSE,
          value |-> Items(SortByKey(teamGoalsEntries(statsByTeam(d))))]

(***************************************************************************)
(* availableWeeks and weeksWithSelectedTeam, the Week Indexer.             *)
(***************************************************************************)
\* A faulty variant of SortedWeeks: the distinct weeks are not sorted.
DistinctWeeksUnsorted(rows) == Distinct([i \in 1..Len(rows) |-> rows[i].Wk])

\* [...new Set(rows.map(r => r.Wk))].sort((a, b) => a - b)
SortedWeeks(rows) ==
    LET wks == Distinct([i \in 1..Len(rows) |-> rows[i].Wk])
    IN Items(SortByKey([i \in 1..Len(wks) |-> [key |-> wks[i], item |-> wks[i]]]))

\* A faulty variant of availableWeeks: week 1 is listed when there is no row.
availableWeeksWithDefault(d) == IF d = <<>> THEN <<Int2Num(1)>> ELSE SortedWeeks(d)

availableWeeks(d) == SortedWeeks(d)

weeksWithSelectedTeam(d, sel) ==
    IF ~TruthyStr(sel) THEN <<>> ELSE SortedWeeks(TeamRows(d, sel))

(***************************************************************************)
(* timeseriesData, the xG Time Series Builder.                             *)
(***************************************************************************)
\* A faulty variant of timeseriesPoint: the away role is not swapped.
timeseriesPointNoSwap(r, sel) ==
    [date |-> r.Date,
     xG |-> r.xG,
     xGA |-> r.xG_away,
     team |-> IF TruthyStr(sel) /\ (r.Home = sel \/ r.Away = sel) THEN sel ELSE r.Home,
     match |-> r.Home \o " vs " \o r.Away,
     opponent |-> r.Away]

\* The point the map callback returns for row r.
timeseriesPoint(r, sel) ==
    LET isHome == r.Home = sel
        isAway == r.Away = sel
    IN IF TruthyStr(sel) /\ (isHome \/ isAway)
       THEN [date |-> r.Date,
             xG |-> IF isHome THEN r.xG ELSE r.xG_away,
             xGA |-> IF isHome THEN r.xG_away ELSE r.xG,
             team |-> sel,
             match |-> r.Home \o " vs " \o r.Away,
             opponent |-> IF isHome THEN r.Away ELSE r.Home]
       ELSE [date |-> r.Date,
             xG |-> r.xG,
             xGA |-> r.xG_away,
             team |-> r.Home,
             match |-> r.Home \o " vs " \o r.Away,
             opponent |-> r.Away]

\* A faulty variant of timeseriesData: the points are left in dataset order.
timeseriesDataUnsorted(d, sel) ==
    LET filtered == IF TruthyStr(sel) THEN TeamRows(d, sel) ELSE d
    IN [i \in 1..Len(filtered) |-> timeseriesPoint(filtered[i], sel)]

\* A faulty variant of timeseriesData: the team filter is applied even when no
\* team is selected.
timeseriesDataAlwaysFiltered(d, sel) ==
    LET filtered == TeamRows(d, sel)
        points == [i \in 1..Len(filtered) |-> timeseriesPoint(filtered[i], sel)]
    IN Items(SortByKey([i \in 1..Len(points) |->
                           [key |-> getTime(points[i].date), item |-> points[i]]]))

timeseriesData(d, sel) ==
    LET filtered == IF TruthyStr(sel) THEN TeamRows(d, sel) ELSE d
        points == [i \in 1..Len(filtered) |-> timeseriesPoint(filtered[i], sel)]
    IN Items(SortByKey([i \in 1..Len(points) |->
                           [key |-> getTime(points[i].date), item |-> points[i]]]))

(***************************************************************************)
(* matchOutcomes, the Outcome Classifier.                                  *)
(***************************************************************************)
\* A faulty variant of matchOutcomesLoop: the final else is missing, so a draw
\* is not counted.
RECURSIVE matchOutcomesLoopNoDraws(_, _, _, _, _)
matchOutcomesLoopNoDraws(d, i, homeWins, awayWins, draws) ==
    IF i > Len(d) THEN <<homeWins, awayWins, draws>>
    ELSE LET sc == parseScore(d[i].Score)
         IN IF NumGt(sc.homeGoals, sc.awayGoals)
            THEN matchOutcomesLoopNoDraws(d, i + 1, homeWins + 1, awayWins, draws)
            ELSE IF NumLt(sc.homeGoals, sc.awayGoals)
            THEN matchOutcomesLoopNoDraws(d, i + 1, homeWins, awayWins + 1, draws)
            ELSE matchOutcomesLoopNoDraws(d, i + 1, homeWins, awayWins, draws)

\* A faulty variant of matchOutcomesLoop: the first comparison is >= instead of
\* >, so equal goals count as a home win.
RECURSIVE matchOutcomesLoopTieToHome(_, _, _, _, _)
matchOutcomesLoopTieToHome(d, i, homeWins, awayWins, draws) ==
    IF i > Len(d) THEN <<homeWins, awayWins, draws>>
    ELSE LET sc == parseScore(d[i].Score)
         IN IF ~NumLt(sc.homeGoals, sc.awayGoals)
            THEN matchOutcomesLoopTieToHome(d, i + 1, homeWins + 1, awayWins, draws)
            ELSE IF NumLt(sc.homeGoals, sc.awayGoals)
            THEN matchOutcomesLoopTieToHome(d, i + 1, homeWins, awayWins + 1, draws)
            ELSE matchOutcomesLoopTieToHome(d, i + 1, homeWins, awayWins, draws + 1)

\* The forEach of matchOutcomes from row i on, with the three counters.
RECURSIVE matchOutcomesLoop(_, _, _, _, _)
matchOutcomesLoop(d, i, homeWins, awayWins, draws) ==
    IF i > Len(d) THEN <<homeWins, awayWins, draws>>
    ELSE LET sc == parseScore(d[i].Score)
         IN IF NumGt(sc.homeGoals, sc.awayGoals)
            THEN matchOutcomesLoop(d, i + 1, homeWins + 1, awayWins, draws)
            ELSE IF NumLt(sc.homeGoals, sc.awayGoals)
            THEN matchOutcomesLoop(d, i + 1, homeWins, awayWins + 1, draws)
            ELSE matchOutcomesLoop(d, i + 1, homeWins, awayWins, draws + 1)

Percentage(count, total) ==
    NumMul(NumDiv(Int2Num(count), Int2Num(total)), Int2Num(100))

matchOutcomes(d) ==
    LET c == matchOutcomesLoop(d, 1, 0, 0, 0)
        total == c[1] + c[2] + c[3]
    IN [thrown |-> ScoreThrows(d, 1..Len(d)),
        values |-> c,
        percentages |-> << Percentage(c[1], total), Percentage(c[2], total),
                           Percentage(c[3], total) >>,
        counts |-> c,
        total |-> total]

(***************************************************************************)
(* scatterData, the xG/xGA Team Summary.                                   *)
(***************************************************************************)
NoTeamStats ==
    [xG |-> Zero, xGA |-> Zero, matches |-> Zero, goalsFor |-> Zero,
     goalsAgainst |-> Zero]

\* A faulty variant of scatterLoop: the away side gets the home side's view of
\* xG and xGA.
RECURSIVE scatterLoopNoSwap(_, _, _)
scatterLoopNoSwap(d, i, map) ==
    IF i > Len(d) THEN map
    ELSE LET match == d[i]
             sc == parseScore(match.Score)
             h0 == MapGet(map, match.Home, NoTeamStats)
             m1 == MapSet(map, match.Home,
                     [xG |-> NumAdd(h0.xG, match.xG),
                      xGA |-> NumAdd(h0.xGA, match.xG_away),
                      goalsFor |-> NumAdd(h0.goalsFor, sc.homeGoals),
                      goalsAgainst |-> NumAdd(h0.goalsAgainst, sc.awayGoals),
                      matches |-> NumAdd(h0.matches, Int2Num(1))])
             a0 == MapGet(m1, match.Away, NoTeamStats)
             m2 == MapSet(m1, match.Away,
                     [xG |-> NumAdd(a0.xG, match.xG),
                      xGA |-> NumAdd(a0.xGA, match.xG_away),
                      goalsFor |-> NumAdd(a0.goalsFor, sc.awayGoals),
                      goalsAgainst |-> NumAdd(a0.goalsAgainst, sc.homeGoals),
                      matches |-> NumAdd(a0.matches, Int2Num(1))])
         IN scatterLoopNoSwap(d, i + 1, m2)

\* A faulty variant of scatterLoop: the away side is charged with its own goals
\* as goals against.
RECURSIVE scatterLoopAwayAgainstOwn(_, _, _)
scatterLoopAwayAgainstOwn(d, i, map) ==
    IF i > Len(d) THEN map
    ELSE LET match == d[i]
             sc == parseScore(match.Score)
             h0 == MapGet(map, match.Home, NoTeamStats)
             m1 == MapSet(map, match.Home,
                     [xG |-> NumAdd(h0.xG, match.xG),
                      xGA |-> NumAdd(h0.xGA, match.xG_away),
                      goalsFor |-> NumAdd(h0.goalsFor, sc.homeGoals),
                      goalsAgainst |-> NumAdd(h0.goalsAgainst, sc.awayGoals),
                      matches |-> NumAdd(h0.matches, Int2Num(1))])
             a0 == MapGet(m1, match.Away, NoTeamStats)
             m2 == MapSet(m1, match.Away,
                     [xG |-> NumAdd(a0.xG, match.xG_away),
                      xGA |-> NumAdd(a0.xGA, match.xG),
                      goalsFor |-> NumAdd(a0.goalsFor, sc.awayGoals),
                      goalsAgainst |-> NumAdd(a0.goalsAgainst, sc.awayGoals),
                      matches |-> NumAdd(a0.matches, Int2Num(1))])
         IN scatterLoopAwayAgainstOwn(d, i + 1, m2)

\* The forEach of scatterData from row i on, teamStats being map.
RECURSIVE scatterLoop(_, _, _)
scatterLoop(d, i, map) ==
    IF i > Len(d) THEN map
    ELSE LET match == d[i]
             sc == parseScore(match.Score)
             h0 == MapGet(map, match.Home, NoTeamStats)
             m1 == MapSet(map, match.Home,
                     [xG |-> NumAdd(h0.xG, match.xG),
                      xGA |-> NumAdd(h0.xGA, match.xG_away),
                      goalsFor |-> NumAdd(h0.goalsFor, sc.homeGoals),
                      goalsAgainst |-> NumAdd(h0.goalsAgainst, sc.awayGoals),
                      matches |-> NumAdd(h0.matches, Int2Num(1))])
             a0 == MapGet(m1, match.Away, NoTeamStats)
             m2 == MapSet(m1, match.Away,
                     [xG |-> NumAdd(a0.xG, match.xG_away),
                      xGA |-> NumAdd(a0.xGA, match.xG),
                      goalsFor |-> NumAdd(a0.goalsFor, sc.awayGoals),
                      goalsAgainst |-> NumAdd(a0.goalsAgainst, sc.homeGoals),
                      matches |-> NumAdd(a0.matches, Int2Num(1))])
         IN scatterLoop(d, i + 1, m2)

teamStats(d) == scatterLoop(d, 1, <<>>)

RECURSIVE scatterEntries(_)
scatterEntries(map) ==
    IF map = <<>> THEN <<>>
    ELSE LET e == Head(map)
             s == e.value
         IN (IF NumGt(s.matches, Zero)
             THEN <<[team |-> e.key,
                     xG |-> NumDiv(s.xG, s.matches),
                     xGA |-> NumDiv(s.xGA, s.matches),
                     goalsPerMatch |-> NumDiv(s.goalsFor, s.matches),
                     concededPerMatch |-> NumDiv(s.goalsAgainst, s.matches),
                     matches |-> s.matches,
                     goalDiff |-> NumDiv(NumSub(s.goalsFor, s.goalsAgainst), s.matches)]>>
             ELSE <<>>) \o scatterEntries(Tail(map))

\* A faulty variant of scatterData: with a team selected only its entry is
\* returned.
scatterDataOfSelectedTeam(d) ==
    IF ScoreThrows(d, 1..Len(d)) THEN [thrown |-> TRUE, value |-> <<>>]
    ELSE LET all == scatterEntries(teamStats(d))
             own == {k \in 1..Len(all) : all[k].team = selectedTeam}
         IN [thrown |-> FALSE,
             value |-> IF TruthyStr(selectedTeam)
                       THEN [k \in 1..Cardinality(own) |->
                                all[CHOOSE j \in own :
                                        Cardinality({i \in own : i < j}) = k - 1]]
                       ELSE all]

scatterData(d) ==
    IF ScoreThrows(d, 1..Len(d)) THEN [thrown |-> TRUE, value |-> <<>>]
    ELSE [thrown |-> FALSE, value |-> scatterEntries(teamStats(d))]

(***************************************************************************)
(* ppgTimeseriesData, the Points-Per-Game Tracker.                         *)
(***************************************************************************)
\* A faulty variant of SortRowsByDate: the rows are left in upload order.
RowsInUploadOrder(rows) == rows

\* rows.sort((a, b) => new Date(a.Date).getTime() - new Date(b.Date).getTime())
SortRowsByDate(rows) ==
    Items(SortByKey([i \in 1..Len(rows) |->
                        [key |-> getTime(rows[i].Date), item |-> rows[i]]]))

\* The points the selected team earns in match (lines 299-310).
matchPoints(match, sel) ==
    LET sc == parseScore(match.Score)
    IN IF match.Home = sel
       THEN IF NumGt(sc.homeGoals, sc.awayGoals) THEN 3
            ELSE IF NumEq(sc.homeGoals, sc.awayGoals) THEN 1 ELSE 0
       ELSE IF NumGt(sc.awayGoals, sc.homeGoals) THEN 3
            ELSE IF NumEq(sc.homeGoals, sc.awayGoals) THEN 1 ELSE 0

\* A faulty variant of ppgLoop: each point carries the points of its own match
\* instead of the running total.
RECURSIVE ppgLoopNoRunningTotal(_, _, _, _, _)
ppgLoopNoRunningTotal(teamMatches, i, sel, points, matchesPlayed) ==
    IF i > Len(teamMatches) THEN <<>>
    ELSE LET match == teamMatches[i]
             mp == matchPoints(match, sel)
             played == matchesPlayed + 1
         IN << [date |-> match.Date,
                ppg |-> NumDiv(Int2Num(mp), Int2Num(played)),
                points |-> mp,
                matches |-> played,
                opponent |-> IF match.Home = sel THEN match.Away ELSE match.Home,
                venue |-> IF match.Home = sel THEN "Home" ELSE "Away",
                result |-> IF mp = 3 THEN "Win" ELSE IF mp = 1 THEN "Draw" ELSE "Loss",
                score |-> match.Score,
                team |-> sel] >>
            \o ppgLoopNoRunningTotal(teamMatches, i + 1, sel, mp, played)

\* A faulty variant of ppgLoop: the result label is read off the running total
\* instead of the points of the match.
RECURSIVE ppgLoopResultFromTotal(_, _, _, _, _)
ppgLoopResultFromTotal(teamMatches, i, sel, points, matchesPlayed) ==
    IF i > Len(teamMatches) THEN <<>>
    ELSE LET match == teamMatches[i]
             mp == matchPoints(match, sel)
             pts == points + mp
             played == matchesPlayed + 1
         IN << [date |-> match.Date,
                ppg |-> NumDiv(Int2Num(pts), Int2Num(played)),
                points |-> pts,
                matches |-> played,
                opponent |-> IF match.Home = sel THEN match.Away ELSE match.Home,
                venue |-> IF match.Home = sel THEN "Home" ELSE "Away",
                result |-> IF pts = 3 THEN "Win" ELSE IF pts = 1 THEN "Draw" ELSE "Loss",
                score |-> match.Score,
                team |-> sel] >>
            \o ppgLoopResultFromTotal(teamMatches, i + 1, sel, pts, played)

\* teamMatches.map(...) from match i on, with the running totals.
RECURSIVE ppgLoop(_, _, _, _, _)
ppgLoop(teamMatches, i, sel, points, matchesPlayed) ==
    IF i > Len(teamMatches) THEN <<>>
    ELSE LET match == teamMatches[i]
             mp == matchPoints(match, sel)
             pts == points + mp
             played == matchesPlayed + 1
         IN << [date |-> match.Date,
                ppg |-> NumDiv(Int2Num(pts), Int2Num(played)),
                points |-> pts,
                matches |-> played,
                opponent |-> IF match.Home = sel THEN match.Away ELSE match.Home,
                venue |-> IF match.Home = sel THEN "Home" ELSE "Away",
                result |-> IF mp = 3 THEN "Win" ELSE IF mp = 1 THEN "Draw" ELSE "Loss",
                score |-> match.Score,
                team |-> sel] >>
            \o ppgLoop(teamMatches, i + 1, sel, pts, played)

\* A faulty variant of compareMatchPoints: the role is judged for the selected
\* team instead of the comparison team.
compareMatchPointsOfSelected(match, cmp) ==
    LET sc == parseScore(match.Score)
    IN IF match.Home = selectedTeam
       THEN IF NumGt(sc.homeGoals, sc.awayGoals) THEN 3
            ELSE IF NumEq(sc.homeGoals, sc.awayGoals) THEN 1 ELSE 0
       ELSE IF NumGt(sc.awayGoals, sc.homeGoals) THEN 3
            ELSE IF NumEq(sc.homeGoals, sc.awayGoals) THEN 1 ELSE 0

\* The points the comparison team earns in match (lines 349-360).
compareMatchPoints(match, cmp) ==
    LET sc == parseScore(match.Score)
    IN IF match.Home = cmp
       THEN IF NumGt(sc.homeGoals, sc.awayGoals) THEN 3
            ELSE IF NumEq(sc.homeGoals, sc.awayGoals) THEN 1 ELSE 0
       ELSE IF NumGt(sc.awayGoals, sc.homeGoals) THEN 3
            ELSE IF NumEq(sc.homeGoals, sc.awayGoals) THEN 1 ELSE 0

\* compareMatches.map(...) from match i on, with the running totals.
RECURSIVE compareLoop(_, _, _, _, _)
compareLoop(compareMatches, i, cmp, comparePoints, compareMatchesPlayed) ==
    IF i > Len(compareMatches) THEN <<>>
    ELSE LET match == compareMatches[i]
             mp == compareMatchPoints(match, cmp)
             pts == comparePoints + mp
             played == compareMatchesPlayed + 1
         IN << [date |-> match.Date,
                ppg |-> NumDiv(Int2Num(pts), Int2Num(played)),
                points |-> pts,
                matches |-> played,
                opponent |-> IF match.Home = cmp THEN match.Away ELSE match.Home,
                venue |-> IF match.Home = cmp THEN "Home" ELSE "Away",
                result |-> IF mp = 3 THEN "Win" ELSE IF mp = 1 THEN "Draw" ELSE "Loss",
                score |-> match.Score,
                team |-> cmp] >>
            \o compareLoop(compareMatches, i + 1, cmp, pts, played)

ppgTimeseriesData(d, sel, cmp) ==
    IF ~TruthyStr(sel)
    THEN [thrown |-> FALSE, primaryTeam |-> <<>>, compareTeam |-> <<>>]
    ELSE LET teamMatches == SortRowsByDate(TeamRows(d, sel))
             compareMatches == SortRowsByDate(TeamRows(d, cmp))
         IN IF \/ ScoreThrows(teamMatches, 1..Len(teamMatches))
               \/ TruthyStr(cmp) /\ ScoreThrows(compareMatches, 1..Len(compareMatches))
            THEN [thrown |-> TRUE, primaryTeam |-> <<>>, compareTeam |-> <<>>]
            ELSE [thrown |-> FALSE,
                  primaryTeam |-> ppgLoop(teamMatches, 1, sel, 0, 0),
                  compareTeam |-> IF TruthyStr(cmp)
                                  THEN compareLoop(compareMatches, 1, cmp, 0, 0)
                                  ELSE <<>>]

(***************************************************************************)
(* The "Avg Goals Per Match" card: data.reduce(...) / data.length.         *)
(***************************************************************************)
RECURSIVE totalGoals(_, _, _)
totalGoals(d, i, sum) ==
    IF i > Len(d) THEN sum
    ELSE LET sc == parseScore(d[i].Score)
         IN totalGoals(d, i + 1, NumAdd(NumAdd(sum, sc.homeGoals), sc.awayGoals))

avgGoalsPerMatch(d) ==
    [thrown |-> ScoreThrows(d, 1..Len(d)),
     value |-> NumDiv(totalGoals(d, 1, Zero), Int2Num(Len(d)))]

(***************************************************************************)
(* One render of App evaluates every useMemo callback and the card above   *)
(* for the current state; the views below are these values.  A render in   *)
(* which a callback throws unmounts the component.                         *)
(***************************************************************************)
RenderThrows(d, sel, cmp) ==
    \/ ScoreThrows(d, 1..Len(d))
    \/ TruthyStr(sel) /\ ScoreThrows(TeamRows(d, sel), 1..Len(TeamRows(d, sel)))
    \/ TruthyStr(sel) /\ TruthyStr(cmp)
           /\ ScoreThrows(TeamRows(d, cmp), 1..Len(TeamRows(d, cmp)))

Mounted == ~RenderThrows(data, selectedTeam, compareTeam)

(***************************************************************************)
(* Inputs.                                                                 *)
(***************************************************************************)
Header == "Wk,Day,Date,Time,Home,xG,Score,xG_away,Away,Attendance,Venue,Referee"

\* CSV lines of complete rows.  Every Date parses; Home and Away differ
\* (spec section 3 assumes both).  The scores cover a home win, a draw, an
\* away win, a non-numeric segment, an empty score and a signed segment.
LineWin == "1,Fri,2024-08-16,20:00,A,1.5,2~1,0.8,B,100,V,R"
LineDraw == "1,Sat,2024-08-17,15:00,B,0.8,1~1,1.2,A,100,V,R"
LineLoss == "2,Sat,2024-08-24,15:00,A,0.4,0~2,2.6,C,100,V,R"
LineAwayWin == "2,Sun,2024-08-17,14:00,C,1.0,0~3,2.0,A,100,V,R"
LineBadSegment == "3,Sat,2024-08-16,15:00,C,0.5,x~1,1.4,B,100,V,R"
LineNoScore == "1,Sat,2024-08-24,15:00,B,2.4,,0.3,C,100,V,R"
LineSigned == "3,Sun,2024-08-17,16:30,B,1.1,-2~1,0.9,A,100,V,R"

AggLines ==
    {LineWin, LineDraw, LineLoss, LineAwayWin, LineBadSegment, LineNoScore, LineSigned}

AggRows == {ParseLine(l) : l \in AggLines}

\* The sequences of different elements of S, of length at most n: a match is
\* listed once in a dataset.
RECURSIVE SeqsUpTo(_, _)
SeqsUpTo(S, n) ==
    IF n = 0 THEN {<<>>}
    ELSE LET shorter == SeqsUpTo(S, n - 1)
         IN shorter \cup UNION {{Append(q, x) : x \in S \ Range(q)} : q \in shorter}

AggDatasets == SeqsUpTo(AggRows, MaxRows)

\* The score strings parseScore is called on: every string over ScoreAlphabet
\* of length at most MaxScoreLen, and the strings of spec section 8.
ScoreAlphabet == {"0", "1", "2", EnDash, "-", "+", " ", "a"}

RECURSIVE StringsUpTo(_)
StringsUpTo(n) ==
    IF n = 0 THEN {""}
    ELSE LET shorter == StringsUpTo(n - 1)
         IN shorter \cup {q \o c : q \in shorter, c \in ScoreAlphabet}

ScoreStrings == StringsUpTo(MaxScoreLen) \cup {"2~1", "abc~def", "3", "10~12", "-2~1"}

\* The files offered to the upload handler.
TextHeaderOnly == Header
TextNoRows == Header \o "\n"
TextSeason == Header \o "\n" \o LineWin \o "\n" \o LineDraw \o "\n" \o LineLoss \o "\n"
TextRagged ==
    Header \o "\n" \o LineBadSegment \o "\n" \o "2,Sat,2024-08-24,15:00,B,2.4"
           \o "\n" \o "\n" \o LineNoScore

Texts == {TextHeaderOnly, TextNoRows, TextSeason, TextRagged}

Files == {[name |-> "matches.csv", text |-> t] : t \in Texts}
             \cup {[name |-> "matches.txt", text |-> TextSeason]}

\* More files for the upload handler alone: the empty file, rows whose week is
\* a number but no positive integer, and rows that lack a week, a home team
\* or an away team.
LineNegativeWeek == "-1,Sat,2024-08-31,15:00,A,1.0,1~0,1.0,B,100,V,R"
LineFractionalWeek == "1.5,Sat,2024-08-31,17:30,B,1.0,0~0,1.0,C,100,V,R"
LineZeroWeek == "0,Sat,2024-08-31,15:00,A,1.0,1~0,1.0,C,100,V,R"
LineTextWeek == "x,Sat,2024-08-31,15:00,A,1.0,1~0,1.0,B,100,V,R"
LineNoWeek == ",Sat,2024-08-31,15:00,C,1.0,1~0,1.0,B,100,V,R"
LineNoHome == "2,Sat,2024-08-31,15:00,,1.0,1~0,1.0,B,100,V,R"
LineNoAway == "2,Sat,2024-08-31,15:00,A,1.0,1~0,1.0,,100,V,R"

TextEmpty == ""
TextOddWeeks == Header \o "\n" \o LineNegativeWeek \o "\n" \o LineFractionalWeek
TextRejected ==
    Header \o "\n" \o LineZeroWeek \o "\n" \o LineTextWeek \o "\n" \o LineNoWeek
           \o "\n" \o LineNoHome \o "\n" \o LineNoAway \o "\n"

UploadTexts == Texts \cup {TextEmpty, TextOddWeeks, TextRejected}

UploadFiles == {[name |-> "matches.csv", text |-> t] : t \in UploadTexts}
                   \cup {[name |-> "matches.txt", text |-> TextSeason]}

\* What reader.onload computes from each text (lines 410-420), tabulated once:
\* the number of lines and the rows that pass the filter.
OnloadParse ==
    [t \in UploadTexts |-> LET lines == Split(t, "\n")
                           IN [lines |-> Len(lines), rows |-> ParseRows(lines, 2)]]

\* The teams offered to the two selects in the model.
PickedTeams == {"Manchester Utd", "Liverpool", "A", "B", "C"}

(***************************************************************************)
(* The App component.                                                      *)
(***************************************************************************)
NotCalled == [called |-> FALSE, result |-> parseScore("")]

Init ==
    /\ data = defaultData
    /\ error = ""
    /\ selectedTeam = ""
    /\ compareTeam = ""
    /\ activeWeek = Int2Num(1)
    /\ readers = <<>>
    /\ scoreArg = ""
    /\ scoreResult = NotCalled

\* handleFileUpload with no file chosen (lines 398-402).
UploadNoFile ==
    /\ Mounted
    /\ error' = "No file selected"
    /\ UNCHANGED <<data, selectedTeam, compareTeam, activeWeek, readers,
                   scoreArg, scoreResult>>

\* handleFileUpload up to reader.readAsText(file) (lines 398-434).
UploadFile(file) ==
    /\ Mounted
    /\ IF ~EndsWith(file.name, ".csv")
       THEN /\ error' = "Please upload a CSV file"
            /\ UNCHANGED readers
       ELSE /\ Len(readers) < MaxPending
            /\ readers' = Append(readers, file.text)
            /\ UNCHANGED error
    /\ UNCHANGED <<data, selectedTeam, compareTeam, activeWeek, scoreArg, scoreResult>>

\* A faulty variant of ReaderOnload: the active week is not reset to the first
\* week of the new rows.
ReaderOnloadKeepsWeek(k) ==
    /\ Mounted
    /\ k \in 1..Len(readers)
    /\ readers' = SubSeq(readers, 1, k - 1) \o SubSeq(readers, k + 1, Len(readers))
    /\ LET text == readers[k]
           rows == OnloadParse[text].rows
       IN IF OnloadParse[text].lines < 2
          THEN /\ error' = "CSV file is empty or contains only headers"
               /\ UNCHANGED data
          ELSE /\ data' = rows
               /\ error' = ""
    /\ UNCHANGED <<selectedTeam, compareTeam, activeWeek, scoreArg, scoreResult>>

\* A faulty variant of ReaderOnload: a text of fewer than two lines empties the
\* dataset as well as setting the error.
ReaderOnloadClearsOnReject(k) ==
    /\ Mounted
    /\ k \in 1..Len(readers)
    /\ readers' = SubSeq(readers, 1, k - 1) \o SubSeq(readers, k + 1, Len(readers))
    /\ LET text == readers[k]
           rows == OnloadParse[text].rows
           weeks == SortedWeeks(rows)
       IN IF OnloadParse[text].lines < 2
          THEN /\ error' = "CSV file is empty or contains only headers"
               /\ data' = <<>>
               /\ UNCHANGED activeWeek
          ELSE /\ data' = rows
               /\ activeWeek' = IF Len(rows) > 0 /\ Len(weeks) > 0
                                THEN weeks[1] ELSE activeWeek
               /\ error' = ""
    /\ UNCHANGED <<selectedTeam, compareTeam, scoreArg, scoreResult>>

\* reader.onload of the k-th pending read (lines 409-433).
ReaderOnload(k) ==
    /\ Mounted
    /\ k \in 1..Len(readers)
    /\ readers' = SubSeq(readers, 1, k - 1) \o SubSeq(readers, k + 1, Len(readers))
    /\ LET text == readers[k]
           rows == OnloadParse[text].rows
           weeks == SortedWeeks(rows)
       IN IF OnloadParse[text].lines < 2
          THEN /\ error' = "CSV file is empty or contains only headers"
               /\ UNCHANGED <<data, activeWeek>>
          ELSE /\ data' = rows
               /\ activeWeek' = IF Len(rows) > 0 /\ Len(weeks) > 0
                                THEN weeks[1] ELSE activeWeek
               /\ error' = ""
    /\ UNCHANGED <<selectedTeam, compareTeam, scoreArg, scoreResult>>

\* onChange of the team select (line 1106): "" or one of teams.
SelectTeam(t) ==
    /\ Mounted
    /\ t = "" \/ t \in Range(teams(data))
    /\ selectedTeam' = t
    /\ UNCHANGED <<data, error, compareTeam, activeWeek, readers, scoreArg, scoreResult>>

\* onChange of the compare select (lines 1229, 1246-1255): rendered when a team
\* is selected; "" or one of teams other than the selected team.
SelectCompareTeam(t) ==
    /\ Mounted
    /\ TruthyStr(selectedTeam)
    /\ t = "" \/ (t \in Range(teams(data)) /\ t # selectedTeam)
    /\ compareTeam' = t
    /\ UNCHANGED <<data, error, selectedTeam, activeWeek, readers, scoreArg, scoreResult>>

\* Array.prototype.indexOf, 0-based, -1 when absent.
IndexOf(s, x) ==
    IF \E i \in 1..Len(s) : s[i] = x
    THEN (CHOOSE i \in 1..Len(s) : s[i] = x /\ \A j \in 1..(i - 1) : s[j] # x) - 1
    ELSE -1

\* onClick of a week tab (lines 1318-1330).
ClickWeekTab(week) ==
    /\ Mounted
    /\ week \in Range(availableWeeks(data))
    /\ activeWeek' = week
    /\ UNCHANGED <<data, error, selectedTeam, compareTeam, readers, scoreArg, scoreResult>>

\* onClick of "Previous match" (lines 1279-1287).
ClickPrevious ==
    LET wks == weeksWithSelectedTeam(data, selectedTeam)
        currentIndex == IndexOf(wks, activeWeek)
        prevIndex == IF currentIndex <= 0 THEN Len(wks) - 1 ELSE currentIndex - 1
    IN /\ Mounted
       /\ TruthyStr(selectedTeam) /\ Len(wks) > 0
       /\ activeWeek' = wks[prevIndex + 1]
       /\ UNCHANGED <<data, error, selectedTeam, compareTeam, readers, scoreArg, scoreResult>>

\* A faulty variant of ClickNext: the wrap to index 0 comes one week early.
ClickNextWrapsEarly ==
    LET wks == weeksWithSelectedTeam(data, selectedTeam)
        currentIndex == IndexOf(wks, activeWeek)
        nextIndex == IF currentIndex >= Len(wks) - 2 THEN 0 ELSE currentIndex + 1
    IN /\ Mounted
       /\ TruthyStr(selectedTeam) /\ Len(wks) > 0
       /\ activeWeek' = wks[nextIndex + 1]
       /\ UNCHANGED <<data, error, selectedTeam, compareTeam, readers, scoreArg, scoreResult>>

\* onClick of "Next match" (lines 1279, 1292-1298).
ClickNext ==
    LET wks == weeksWithSelectedTeam(data, selectedTeam)
        currentIndex == IndexOf(wks, activeWeek)
        nextIndex == IF currentIndex >= Len(wks) - 1 THEN 0 ELSE currentIndex + 1
    IN /\ Mounted
       /\ TruthyStr(selectedTeam) /\ Len(wks) > 0
       /\ activeWeek' = wks[nextIndex + 1]
       /\ UNCHANGED <<data, error, selectedTeam, compareTeam, readers, scoreArg, scoreResult>>

Next ==
    \/ UploadNoFile
    \/ \E file \in Files : UploadFile(file)
    \/ \E k \in 1..MaxPending : ReaderOnload(k)
    \/ \E t \in PickedTeams \cup {""} : SelectTeam(t)
    \/ \E t \in PickedTeams \cup {""} : SelectCompareTeam(t)
    \/ \E week \in {Int2Num(w) : w \in 1..3} : ClickWeekTab(week)
    \/ ClickPrevious
    \/ ClickNext

Spec == Init /\ [][Next]_vars

(***************************************************************************)
(* The aggregators on every bounded dataset: the component as it stands    *)
(* after an upload has installed the dataset, under the two selects.       *)
(***************************************************************************)
InitAgg ==
    /\ data \in AggDatasets
    /\ error = ""
    /\ selectedTeam = ""
    /\ compareTeam = ""
    /\ activeWeek = IF Len(data) > 0 THEN SortedWeeks(data)[1] ELSE Int2Num(1)
    /\ readers = <<>>
    /\ scoreArg = ""
    /\ scoreResult = NotCalled

NextAgg ==
    \/ \E t \in PickedTeams \cup {""} : SelectTeam(t)
    \/ \E t \in PickedTeams \cup {""} : SelectCompareTeam(t)

SpecAgg == InitAgg /\ [][NextAgg]_vars

(***************************************************************************)
(* The views of the whole league on every bounded dataset, under the team  *)
(* select: they are rendered whatever team is selected.                    *)
(***************************************************************************)
InitLeague == InitAgg

NextLeague == \E t \in PickedTeams \cup {""} : SelectTeam(t)

SpecLeague == InitLeague /\ [][NextLeague]_vars

(***************************************************************************)
(* One render pass and the dataset array.  Array.prototype.sort sorts its  *)
(* receiver in place and filter, map, Array.from and the spread of a Set   *)
(* return a new array, so what a sort does to the dataset depends on       *)
(* whether its receiver is the array held in the state.                    *)
(***************************************************************************)
TheData == [isData |-> TRUE]

\* a.filter(f), a.map(f), Array.from(a), [...new Set(a)]: a new array.
ArrayFilter(a) == [isData |-> FALSE]
ArrayMap(a) == [isData |-> FALSE]
ArrayFrom(a) == [isData |-> FALSE]
SpreadSet(a) == [isData |-> FALSE]

\* The dataset d after receiver.sort(by date).
DataAfterSort(receiver, d) == IF receiver.isData THEN SortRowsByDate(d) ELSE d

\* The receivers of the sorts of teamGoals (line 139), availableWeeks (line
\* 144) and weeksWithSelectedTeam (line 155).
teamGoalsSortReceiver == ArrayMap(ArrayFrom(TheData))
availableWeeksSortReceiver == SpreadSet(ArrayMap(TheData))
weeksWithSelectedTeamSortReceiver == SpreadSet(ArrayMap(ArrayFilter(TheData)))

\* A faulty variant of timeseriesSortReceiver: the sort is applied to filtered,
\* before the map.
timeseriesSortReceiverFiltered(sel) ==
    IF TruthyStr(sel) THEN ArrayFilter(TheData) ELSE TheData

\* The receiver of the sort of timeseriesData (lines 160-192): filtered is the
\* dataset array itself when no team is selected, and the sort is applied to
\* the result of filtered.map.
timeseriesSortReceiver(sel) ==
    LET filtered == IF TruthyStr(sel) THEN ArrayFilter(TheData) ELSE TheData
    IN ArrayMap(filtered)

\* The receivers of the two sorts of ppgTimeseriesData (lines 287-289, 337-339).
teamMatchesSortReceiver == ArrayFilter(TheData)
compareMatchesSortReceiver == ArrayFilter(TheData)

\* The dataset array after the useMemo callbacks of one render have run.
DataAfterRender(d, sel, cmp) ==
    LET afterLeague == IF \/ teamGoalsSortReceiver.isData
                          \/ availableWeeksSortReceiver.isData
                          \/ TruthyStr(sel) /\ weeksWithSelectedTeamSortReceiver.isData
                       THEN SortRowsByDate(d) ELSE d
        afterSeries == DataAfterSort(timeseriesSortReceiver(sel), afterLeague)
        afterPrimary == IF TruthyStr(sel)
                        THEN DataAfterSort(teamMatchesSortReceiver, afterSeries)
                        ELSE afterSeries
    IN IF TruthyStr(sel) /\ TruthyStr(cmp)
       THEN DataAfterSort(compareMatchesSortReceiver, afterPrimary)
       ELSE afterPrimary

\* A render of App: the useMemo callbacks run (lines 110-394).
Render ==
    /\ Mounted
    /\ data' = DataAfterRender(data, selectedTeam, compareTeam)
    /\ UNCHANGED <<error, selectedTeam, compareTeam, activeWeek, readers,
                   scoreArg, scoreResult>>

InitRender == InitAgg

NextRender ==
    \/ \E t \in PickedTeams \cup {""} : SelectTeam(t)
    \/ \E t \in PickedTeams \cup {""} : SelectCompareTeam(t)
    \/ Render

SpecRender == InitRender /\ [][NextRender]_vars

(***************************************************************************)
(* Two overlapping uploads: the component with two reads pending, the      *)
(* first of a file of FirstChosen and the second, started before the first *)
(* completed, of a file of ChosenLast.  The reads complete in any order.   *)
(***************************************************************************)
FirstChosen == {TextSeason, TextOddWeeks}
ChosenLast == {TextRagged, TextNoRows}

InitOverlap ==
    /\ data = defaultData
    /\ error = ""
    /\ selectedTeam = ""
    /\ compareTeam = ""
    /\ activeWeek = Int2Num(1)
    /\ readers \in {<<first, last>> : first \in FirstChosen, last \in ChosenLast}
    /\ scoreArg = ""
    /\ scoreResult = NotCalled

NextOverlap ==
    \/ \E k \in 1..2 : ReaderOnload(k)
    \/ \E t \in PickedTeams \cup {""} : SelectTeam(t)
    \/ \E t \in PickedTeams \cup {""} : SelectCompareTeam(t)
    \/ \E week \in {Int2Num(w) : w \in 1..3} : ClickWeekTab(week)

SpecOverlap == InitOverlap /\ [][NextOverlap]_vars

(***************************************************************************)
(* One read at a time: the component when each file is chosen after the    *)
(* read of the previous one has completed.  The datasets, the selections   *)
(* and the active weeks it reaches are those Spec reaches, since the       *)
(* completions of overlapping reads install their rows one after another.  *)
(***************************************************************************)
UploadFileIdle(file) ==
    /\ Len(readers) = 0
    /\ UploadFile(file)

InitOneRead == Init

NextOneRead ==
    \/ UploadNoFile
    \/ \E file \in Files : UploadFileIdle(file)
    \/ ReaderOnload(1)
    \/ \E t \in PickedTeams \cup {""} : SelectTeam(t)
    \/ \E t \in PickedTeams \cup {""} : SelectCompareTeam(t)
    \/ \E week \in {Int2Num(w) : w \in 1..3} : ClickWeekTab(week)
    \/ ClickPrevious
    \/ ClickNext

SpecOneRead == InitOneRead /\ [][NextOneRead]_vars

(***************************************************************************)
(* parseScore called on every bounded score string.                        *)
(***************************************************************************)
InitParse ==
    /\ data = defaultData
    /\ error = ""
    /\ selectedTeam = ""
    /\ compareTeam = ""
    /\ activeWeek = Int2Num(1)
    /\ readers = <<>>
    /\ scoreArg \in ScoreStrings
    /\ scoreResult = NotCalled

CallParseScore ==
    /\ ~scoreResult.called
    /\ scoreResult' = [called |-> TRUE, result |-> parseScore(scoreArg)]
    /\ UNCHANGED <<data, error, selectedTeam, compareTeam, activeWeek, readers, scoreArg>>

NextParse == CallParseScore

SpecParse == InitParse /\ [][NextParse]_vars

(***************************************************************************)
(* The selects and the week navigation alone, on the datasets the files    *)
(* above install and on two more: one with the weeks 1, 1, 2, 3, 3, 3 in   *)
(* which team C plays in week 2 only, one with its weeks out of order.     *)
(***************************************************************************)
LineLateA == "3,Mon,2024-08-26,20:00,A,1.3,1~0,0.7,B,100,V,R"
LineLateB == "3,Tue,2024-08-27,20:00,B,0.9,2~2,1.1,A,100,V,R"

WeeksExample ==
    << ParseLine(LineWin), ParseLine(LineDraw), ParseLine(LineLoss),
       ParseLine(LineSigned), ParseLine(LineLateA), ParseLine(LineLateB) >>

WeeksUnsorted ==
    << ParseLine(LineBadSegment), ParseLine(LineLoss), ParseLine(LineNoScore),
       ParseLine(LineAwayWin) >>

NavDatasets ==
    {defaultData, WeeksExample, WeeksUnsorted}
        \cup {OnloadParse[t].rows : t \in {u \in Texts : OnloadParse[u].lines >= 2}}

InitNav ==
    /\ data \in NavDatasets
    /\ error = ""
    /\ selectedTeam = ""
    /\ compareTeam = ""
    /\ activeWeek = IF Len(data) > 0 THEN SortedWeeks(data)[1] ELSE Int2Num(1)
    /\ readers = <<>>
    /\ scoreArg = ""
    /\ scoreResult = NotCalled

NextNav ==
    \/ \E t \in PickedTeams \cup {""} : SelectTeam(t)
    \/ \E t \in PickedTeams \cup {""} : SelectCompareTeam(t)
    \/ \E week \in {Int2Num(w) : w \in 1..3} : ClickWeekTab(week)
    \/ ClickPrevious
    \/ ClickNext

SpecNav == InitNav /\ [][NextNav]_vars

(***************************************************************************)
(* The upload handler alone, on more files.                                *)
(***************************************************************************)
InitUpload == Init

NextUpload ==
    \/ UploadNoFile
    \/ \E file \in UploadFiles : UploadFile(file)
    \/ \E k \in 1..MaxPending : ReaderOnload(k)

SpecUpload == InitUpload /\ [][NextUpload]_vars

(***************************************************************************)
(* Properties.  The definitions of this section state what the views are   *)
(* expected to be, from the rows, without the aggregators' code.           *)
(***************************************************************************)
\* The indices of the rows in which team plays.
Fixtures(team) == {i \in 1..Len(data) : data[i].Home = team \/ data[i].Away = team}

\* The times of the first n rows.
RECURSIVE TimesOfRows(_)
TimesOfRows(n) ==
    IF n = 0 THEN <<>> ELSE Append(TimesOfRows(n - 1), getTime(data[n].Date))

\* The rows S in date order, upload order breaking ties: the k-th is the row
\* with k - 1 rows of S before it.
DateOrder(S) ==
    LET t == TimesOfRows(Len(data))
        before(j, i) == NumLt(t[j], t[i]) \/ (NumEq(t[j], t[i]) /\ j < i)
    IN [k \in 1..Cardinality(S) |->
           CHOOSE i \in S : Cardinality({j \in S : before(j, i)}) = k - 1]

\* 3 for a win, 1 for a draw, 0 for a loss of team in row i, the goals of the
\* team being the home goals when it is the home side, the away goals
\* otherwise.
PointsOf(i, team) ==
    LET sc == parseScore(data[i].Score)
        atHome == data[i].Home = team
        goalsFor == IF atHome THEN sc.homeGoals ELSE sc.awayGoals
        goalsAgainst == IF atHome THEN sc.awayGoals ELSE sc.homeGoals
    IN IF NumGt(goalsFor, goalsAgainst) THEN 3
       ELSE IF NumEq(goalsFor, goalsAgainst) THEN 1
       ELSE 0

\* The running totals of the sequence of integers q.
RECURSIVE RunningTotals(_)
RunningTotals(q) ==
    IF q = <<>> THEN <<>>
    ELSE LET before == RunningTotals(SubSeq(q, 1, Len(q) - 1))
         IN Append(before, (IF before = <<>> THEN 0 ELSE before[Len(before)])
                              + q[Len(q)])

PrimarySeries == ppgTimeseriesData(data, selectedTeam, compareTeam).primaryTeam
CompareSeries == ppgTimeseriesData(data, selectedTeam, compareTeam).compareTeam

\* 0 <= points <= 3 * matches and 0 <= ppg <= 3 at every point of s, and points
\* never decreases along s.
BoundedAndMonotonic(s) ==
    /\ \A k \in 1..Len(s) :
          /\ 0 <= s[k].points /\ s[k].points <= 3 * s[k].matches
          /\ ~s[k].ppg.nan
          /\ ~NumLt(s[k].ppg, Zero) /\ ~NumGt(s[k].ppg, Int2Num(3))
    /\ \A k \in 1..(Len(s) - 1) : s[k].points <= s[k + 1].points

\* C1: at every point of a points-per-game series (the selected team's and the
\* comparison team's) 0 <= cumulativePoints <= 3 * matchesPlayed, pointsPerGame
\* lies in [0, 3], and cumulativePoints never decreases along the series.
C1_PpgBoundedMonotonic ==
    LET ppg == ppgTimeseriesData(data, selectedTeam, compareTeam)
    IN BoundedAndMonotonic(ppg.primaryTeam) /\ BoundedAndMonotonic(ppg.compareTeam)

\* A series of three points whose total rises, then stays (a win or draw, then
\* a loss).
C1_Witness ==
    LET s == PrimarySeries
    IN /\ Len(s) = 3
       /\ s[1].points > 0
       /\ s[2].points > s[1].points
       /\ s[3].points = s[2].points

\* C2: the k-th point of the selected team's series has matchesPlayed = k,
\* cumulativePoints = the points of its first k fixtures in date order, and
\* pointsPerGame = cumulativePoints / k; when the three fixtures of the team
\* are, in date order, a win, a draw and a loss, pointsPerGame is 3, 2, 4/3.
C2_PpgRunningTotals ==
    LET s == PrimarySeries
        order == DateOrder(Fixtures(selectedTeam))
        earned == [k \in 1..Len(order) |-> PointsOf(order[k], selectedTeam)]
        totals == RunningTotals(earned)
    IN TruthyStr(selectedTeam) =>
        /\ Len(s) = Len(order)
        /\ \A k \in 1..Len(s) :
              /\ s[k].matches = k
              /\ s[k].points = totals[k]
              /\ s[k].ppg = Frac(totals[k], k)
        /\ earned = <<3, 1, 0>>
              => [k \in 1..3 |-> s[k].ppg] = <<Int2Num(3), Int2Num(2), Frac(4, 3)>>

\* Win, draw, loss in date order, uploaded loss first and win second.
C2_Witness ==
    /\ selectedTeam = "A"
    /\ data = <<ParseLine(LineLoss), ParseLine(LineWin), ParseLine(LineDraw)>>
    /\ [k \in 1..3 |-> PrimarySeries[k].ppg] = <<Int2Num(3), Int2Num(2), Frac(4, 3)>>

XGSeries == timeseriesData(data, selectedTeam)

\* C3: with a team selected the xG series has exactly one point per match the
\* team plays in and none for another match; the point of a home match has
\* xGFor = xG of the home side, xGAgainst = xG of the away side and the away
\* team as opponent, the point of an away match has the two swapped and the
\* home team as opponent (home A, away B, 1.5 / 0.8, selected B: 0.8, 1.5, A).
C3_XGSeriesOfSelectedTeam ==
    LET s == XGSeries
        sel == selectedTeam
        order == DateOrder(Fixtures(sel))
    IN TruthyStr(sel) =>
        /\ Len(s) = Len(order)
        /\ \A k \in 1..Len(s) :
              LET row == data[order[k]]
              IN /\ s[k].date = row.Date
                 /\ s[k].team = sel
                 /\ row.Home = sel =>
                       s[k].xG = row.xG /\ s[k].xGA = row.xG_away
                          /\ s[k].opponent = row.Away
                 /\ row.Away = sel =>
                       s[k].xG = row.xG_away /\ s[k].xGA = row.xG
                          /\ s[k].opponent = row.Home
                 /\ (sel = "B" /\ row = ParseLine(LineWin)) =>
                       s[k].xG = Frac(8, 10) /\ s[k].xGA = Frac(15, 10)
                          /\ s[k].opponent = "A"

\* B is selected; the dataset has the match A-B (1.5 / 0.8) and a match without
\* B, and the series is the one swapped point.
C3_Witness ==
    /\ selectedTeam = "B"
    /\ data = <<ParseLine(LineLoss), ParseLine(LineWin)>>
    /\ Len(XGSeries) = 1
    /\ XGSeries[1].xG = Frac(8, 10) /\ XGSeries[1].xGA = Frac(15, 10)
    /\ XGSeries[1].opponent = "A"

\* C4: with no team selected the xG series has one point for every match of
\* the dataset, each from the home side: team = Home, xGFor = xG of the home
\* side, xGAgainst = xG of the away side, opponent = Away.
C4_XGSeriesOfAllTeams ==
    LET s == XGSeries
        order == DateOrder(1..Len(data))
    IN ~TruthyStr(selectedTeam) =>
        /\ Len(s) = Len(data)
        /\ \A k \in 1..Len(s) :
              LET row == data[order[k]]
              IN /\ s[k].date = row.Date
                 /\ s[k].team = row.Home
                 /\ s[k].xG = row.xG
                 /\ s[k].xGA = row.xG_away
                 /\ s[k].opponent = row.Away

\* No team is selected and the series has the three matches of a dataset of
\* three different home sides, the earliest first and the two of one day in
\* upload order.
C4_Witness ==
    /\ selectedTeam = ""
    /\ data = <<ParseLine(LineAwayWin), ParseLine(LineDraw), ParseLine(LineWin)>>
    /\ [k \in 1..3 |-> XGSeries[k].team] = <<"A", "C", "B">>

\* goalsPerMatch * matchesPlayed of one entry of teamGoals.
GoalsOfEntry(e) == NumMul(e.goalsPerMatch, Int2Num(Cardinality(Fixtures(e.team))))

\* The sum of goalsPerMatch * matchesPlayed over the entries s.
RECURSIVE SumOfEntries(_)
SumOfEntries(s) ==
    IF s = <<>> THEN Zero ELSE NumAdd(GoalsOfEntry(Head(s)), SumOfEntries(Tail(s)))

SumOfTeamGoals == SumOfEntries(teamGoals(data).value)

\* The goals of one row, both sides.
GoalsOfRow(r) ==
    LET sc == parseScore(r.Score) IN NumAdd(sc.homeGoals, sc.awayGoals)

\* The goals scored in the rows s.
RECURSIVE SumOfRows(_)
SumOfRows(s) ==
    IF s = <<>> THEN Zero ELSE NumAdd(GoalsOfRow(Head(s)), SumOfRows(Tail(s)))

GoalsScored == SumOfRows(data)

\* C5 as the spec states it: the sum over all teams of goalsPerMatch *
\* matchesPlayed is twice the goals scored in the dataset.
C5_SumIsTwiceGoalsScored == SumOfTeamGoals = NumMul(Int2Num(2), GoalsScored)

\* C5, amended: the sum over all teams of goalsPerMatch * matchesPlayed is the
\* number of goals scored in the dataset, every goal counted once.
C5_SumIsGoalsScored == SumOfTeamGoals = GoalsScored

\* Two matches with five goals among three teams.
C5_Witness ==
    /\ data = <<ParseLine(LineWin), ParseLine(LineLoss)>>
    /\ Len(teamGoals(data).value) = 3
    /\ SumOfTeamGoals = Int2Num(5)

\* C6: homeWins + awayWins + draws = total = the number of matches, for every
\* dataset, the empty one included.
C6_OutcomeCountsSumToTotal ==
    LET o == matchOutcomes(data)
    IN /\ o.counts[1] + o.counts[2] + o.counts[3] = o.total
       /\ o.total = Len(data)
       /\ \A c \in 1..3 : o.counts[c] >= 0

\* A home win, an away win and a draw.
C6_Witness ==
    /\ Len(data) = 3
    /\ matchOutcomes(data).counts = <<1, 1, 1>>

\* C7: on the empty dataset the percentages of matchOutcomes are defined and
\* all zero: no division by zero, no NaN.
C7_EmptyDatasetZeroPercentages ==
    data = <<>> => matchOutcomes(data).percentages = <<Zero, Zero, Zero>>

\* A number that is an integer >= 0.
IsNaturalNumber(a) == ~a.nan /\ a.den = 1 /\ a.num >= 0

\* C8: for every score string parseScore returns homeGoals and awayGoals that
\* are integers >= 0, and a segment that is missing or that parseInt does not
\* read yields 0 for its side.
C8_GoalsAreNaturalNumbers ==
    LET r == scoreResult.result
        parts == Split(scoreArg, EnDash)
    IN scoreResult.called =>
        /\ IsNaturalNumber(r.homeGoals)
        /\ IsNaturalNumber(r.awayGoals)
        /\ parseInt(ArrayAt(parts, 0)).nan => r.homeGoals = Zero
        /\ parseInt(ArrayAt(parts, 1)).nan => r.awayGoals = Zero

\* C9: parseScore never throws on a string and returns two defined integers;
\* "2-1" (with the en-dash) gives 2 and 1, "" and "abc-def" give 0 and 0, and
\* "3" gives 3 and 0.
C9_ParseScoreTotal ==
    LET r == scoreResult.result
    IN scoreResult.called =>
        /\ ~r.thrown
        /\ ~r.homeGoals.nan /\ r.homeGoals.den = 1
        /\ ~r.awayGoals.nan /\ r.awayGoals.den = 1
        /\ scoreArg = "2~1" => r.homeGoals = Int2Num(2) /\ r.awayGoals = Int2Num(1)
        /\ scoreArg \in {"", "abc~def"} => r.homeGoals = Zero /\ r.awayGoals = Zero
        /\ scoreArg = "3" => r.homeGoals = Int2Num(3) /\ r.awayGoals = Zero

\* parseScore has returned 0 and 0 for a score of two non-numeric segments.
C9_Witness ==
    /\ scoreResult.called
    /\ scoreArg = "abc~def"
    /\ scoreResult.result = [thrown |-> FALSE, homeGoals |-> Zero, awayGoals |-> Zero]

\* Whether a callback of the current render throws.  The xG series and the
\* week indexer call nothing that can throw.
AggregatorThrows ==
    \/ teamGoals(data).thrown
    \/ matchOutcomes(data).thrown
    \/ scatterData(data).thrown
    \/ ppgTimeseriesData(data, selectedTeam, compareTeam).thrown
    \/ avgGoalsPerMatch(data).thrown

\* C10: no aggregator throws on a dataset the upload handler has installed
\* (rows with a truthy week and non-empty team names), whatever the score
\* fields of its rows are.
C10_NoAggregatorThrows == ~AggregatorThrows

\* The upload of a file with a short line, a blank line, a non-numeric score
\* and an empty score has installed its two complete rows, a team of them is
\* selected, and nothing throws.
C10_Witness ==
    /\ data = OnloadParse[TextRagged].rows
    /\ Len(data) = 2
    /\ data[2].Score = ""
    /\ selectedTeam = "B"
    /\ ~AggregatorThrows

\* A row whose week is a positive integer and whose team names are not empty.
WellFormedRow(r) ==
    /\ ~r.Wk.nan /\ r.Wk.den = 1 /\ r.Wk.num > 0
    /\ TruthyStr(r.Home)
    /\ TruthyStr(r.Away)

\* C11: after any sequence of uploads every row of the dataset has a week that
\* is a positive integer and non-empty home and away team names.
C11_RowsWellFormed == \A i \in 1..Len(data) : WellFormedRow(data[i])

\* C12: the dataset is never empty: an upload without a usable row does not
\* replace the dataset.
C12_DatasetNeverEmpty == data # <<>>

\* The teams of the dataset.
TeamsOf ==
    {data[i].Home : i \in 1..Len(data)} \cup {data[i].Away : i \in 1..Len(data)}

\* Where team is first met, reading the rows in order and the home side of a
\* row before its away side.
FirstMet(team) ==
    LET i == CHOOSE i \in Fixtures(team) : \A j \in Fixtures(team) : i <= j
    IN IF data[i].Home = team THEN 2 * i - 1 ELSE 2 * i

\* What row i adds to the sums of team: its own xG and goals as "for", the
\* other side's as "against"; nothing when team does not play in the row.
ShareOfRow(i, team) ==
    LET r == data[i]
        sc == parseScore(r.Score)
    IN IF r.Home = team
       THEN [xG |-> r.xG, xGA |-> r.xG_away,
             goalsFor |-> sc.homeGoals, goalsAgainst |-> sc.awayGoals]
       ELSE IF r.Away = team
       THEN [xG |-> r.xG_away, xGA |-> r.xG,
             goalsFor |-> sc.awayGoals, goalsAgainst |-> sc.homeGoals]
       ELSE [xG |-> Zero, xGA |-> Zero, goalsFor |-> Zero, goalsAgainst |-> Zero]

\* The sums of team over the first n rows.
RECURSIVE SumsOfTeam(_, _)
SumsOfTeam(team, n) ==
    IF n = 0 THEN [xG |-> Zero, xGA |-> Zero, goalsFor |-> Zero, goalsAgainst |-> Zero]
    ELSE LET before == SumsOfTeam(team, n - 1)
             share == ShareOfRow(n, team)
         IN [xG |-> NumAdd(before.xG, share.xG),
             xGA |-> NumAdd(before.xGA, share.xGA),
             goalsFor |-> NumAdd(before.goalsFor, share.goalsFor),
             goalsAgainst |-> NumAdd(before.goalsAgainst, share.goalsAgainst)]

\* The number of matches of team, as a number.
MatchesOf(team) == Int2Num(Cardinality(Fixtures(team)))

\* C13: teamGoals has exactly one entry for each team of the dataset, with
\* goalsPerMatch = goals of the team / matches of the team; the entries are in
\* descending order of goalsPerMatch, and entries of equal goalsPerMatch are in
\* the order in which their teams are first met in the dataset.
C13_TeamGoalsEntries ==
    LET v == teamGoals(data).value
    IN /\ Len(v) = Cardinality(TeamsOf)
       /\ {v[k].team : k \in 1..Len(v)} = TeamsOf
       /\ \A k \in 1..Len(v) :
             v[k].goalsPerMatch =
                 NumDiv(SumsOfTeam(v[k].team, Len(data)).goalsFor, MatchesOf(v[k].team))
       /\ \A k, l \in 1..Len(v) :
             k < l => \/ NumGt(v[k].goalsPerMatch, v[l].goalsPerMatch)
                      \/ /\ v[k].goalsPerMatch = v[l].goalsPerMatch
                         /\ FirstMet(v[k].team) < FirstMet(v[l].team)

\* C scores 2 in one match, A 2 in two and B 1 in one: C comes first, and A,
\* met before B, comes before it.
C13_Witness ==
    /\ data = <<ParseLine(LineWin), ParseLine(LineLoss)>>
    /\ teamGoals(data).value =
           << [team |-> "C", goalsPerMatch |-> Int2Num(2)],
              [team |-> "A", goalsPerMatch |-> Int2Num(1)],
              [team |-> "B", goalsPerMatch |-> Int2Num(1)] >>

\* C14: the xG series is in ascending order of date whatever the order of the
\* rows, and points of equal date are in the order of their rows: its k-th
\* point is the point of the k-th row, in date order with dataset order
\* breaking ties, among the rows the series covers.
C14_XGSeriesInDateOrder ==
    LET s == XGSeries
        covered == IF TruthyStr(selectedTeam) THEN Fixtures(selectedTeam)
                   ELSE 1..Len(data)
        order == DateOrder(covered)
    IN /\ Len(s) = Len(order)
       /\ \A k \in 1..Len(s) :
             LET row == data[order[k]]
             IN /\ s[k].date = row.Date
                /\ s[k].match = row.Home \o " vs " \o row.Away
                /\ {s[k].xG, s[k].xGA} = {row.xG, row.xG_away}
       /\ \A k \in 1..(Len(s) - 1) :
             ~NumGt(getTime(s[k].date), getTime(s[k + 1].date))

\* The latest match is uploaded first and two matches of one day follow: the
\* series has the two of one day first, in upload order, then the latest.
C14_Witness ==
    /\ selectedTeam = "A"
    /\ data = <<ParseLine(LineLoss), ParseLine(LineAwayWin), ParseLine(LineDraw)>>
    /\ [k \in 1..3 |-> XGSeries[k].match] = <<"C vs A", "B vs A", "A vs C">>

\* C15: with a team selected, the comparison series is empty when no
\* comparison team is set; otherwise it is the series the fold of the selected
\* team gives when the comparison team is the selected one, and it is the same
\* whichever team of the dataset is selected.
C15_CompareSeriesIndependent ==
    LET ppg == ppgTimeseriesData(data, selectedTeam, compareTeam)
    IN TruthyStr(selectedTeam) =>
        IF ~TruthyStr(compareTeam) THEN ppg.compareTeam = <<>>
        ELSE /\ ppg.compareTeam = ppgTimeseriesData(data, compareTeam, "").primaryTeam
             /\ \A t \in TeamsOf :
                   ppgTimeseriesData(data, t, compareTeam).compareTeam = ppg.compareTeam

\* A is selected and compared with B, which loses away and then draws at home.
C15_Witness ==
    /\ selectedTeam = "A"
    /\ compareTeam = "B"
    /\ data = <<ParseLine(LineWin), ParseLine(LineDraw)>>
    /\ [k \in 1..2 |-> CompareSeries[k].ppg] = <<Zero, Frac(1, 2)>>
    /\ [k \in 1..2 |-> PrimarySeries[k].ppg] = <<Int2Num(3), Int2Num(2)>>

\* The weeks of the rows S.
WeeksOf(S) == {data[i].Wk : i \in S}

StrictlyAscending(s) == \A k \in 1..(Len(s) - 1) : NumLt(s[k], s[k + 1])

\* C16: availableWeeks is the strictly ascending list of the distinct weeks of
\* the dataset (weeks 1, 1, 2, 3, 3, 3 give 1, 2, 3); weeksWithSelectedTeam is
\* the strictly ascending list of the distinct weeks in which the selected
\* team plays (a team that plays in week 2 only gives 2) and is empty when no
\* team is selected.
C16_WeekLists ==
    LET av == availableWeeks(data)
        wk == weeksWithSelectedTeam(data, selectedTeam)
    IN /\ StrictlyAscending(av)
       /\ Range(av) = WeeksOf(1..Len(data))
       /\ IF TruthyStr(selectedTeam)
          THEN StrictlyAscending(wk) /\ Range(wk) = WeeksOf(Fixtures(selectedTeam))
          ELSE wk = <<>>
       /\ data = WeeksExample =>
             /\ av = <<Int2Num(1), Int2Num(2), Int2Num(3)>>
             /\ selectedTeam = "C" => wk = <<Int2Num(2)>>

\* The dataset with the weeks 1, 1, 2, 3, 3, 3, and C selected.
C16_Witness ==
    /\ data = WeeksExample
    /\ [i \in 1..6 |-> data[i].Wk.num] = <<1, 1, 2, 3, 3, 3>>
    /\ selectedTeam = "C"
    /\ availableWeeks(data) = <<Int2Num(1), Int2Num(2), Int2Num(3)>>
    /\ weeksWithSelectedTeam(data, selectedTeam) = <<Int2Num(2)>>

\* C17: scatterData has one entry for each team of the dataset; its matches is
\* the number of matches of the team in either role, its xG, xGA,
\* goalsPerMatch and concededPerMatch are the role-aware sums of the team
\* divided by that number, and its goalDiff is goalsPerMatch -
\* concededPerMatch.
C17_TeamSummary ==
    LET v == scatterData(data).value
    IN /\ Len(v) = Cardinality(TeamsOf)
       /\ {v[k].team : k \in 1..Len(v)} = TeamsOf
       /\ \A k \in 1..Len(v) :
             LET sums == SumsOfTeam(v[k].team, Len(data))
                 n == MatchesOf(v[k].team)
             IN /\ v[k].matches = n
                /\ v[k].xG = NumDiv(sums.xG, n)
                /\ v[k].xGA = NumDiv(sums.xGA, n)
                /\ v[k].goalsPerMatch = NumDiv(sums.goalsFor, n)
                /\ v[k].concededPerMatch = NumDiv(sums.goalsAgainst, n)
                /\ v[k].goalDiff = NumSub(v[k].goalsPerMatch, v[k].concededPerMatch)

\* A plays at home and away, 2-1 against B and 3-0 at C: two matches, xG
\* (1.5 + 2.0) / 2, xGA (0.8 + 1.0) / 2, 5 goals for and 1 against.
C17_Witness ==
    /\ data = <<ParseLine(LineWin), ParseLine(LineAwayWin)>>
    /\ \E k \in 1..Len(scatterData(data).value) :
          scatterData(data).value[k] =
              [team |-> "A", xG |-> Frac(35, 20), xGA |-> Frac(18, 20),
               goalsPerMatch |-> Frac(5, 2), concededPerMatch |-> Frac(1, 2),
               matches |-> Int2Num(2), goalDiff |-> Int2Num(2)]

\* C18: whatever team is selected or compared and whatever week is active,
\* the views of the league are those of the dataset alone: teamGoals and
\* scatterData have one entry for every team of the dataset, with figures over
\* all the matches of the team, matchOutcomes counts every match, and
\* availableWeeks lists every week; so a change of the selection or of the
\* active week leaves them as they were.
C18_LeagueViewsOfDatasetAlone ==
    LET tg == teamGoals(data).value
        sd == scatterData(data).value
        all == 1..Len(data)
    IN /\ Len(tg) = Cardinality(TeamsOf)
       /\ {tg[k].team : k \in 1..Len(tg)} = TeamsOf
       /\ \A k \in 1..Len(tg) :
             tg[k].goalsPerMatch =
                 NumDiv(SumsOfTeam(tg[k].team, Len(data)).goalsFor, MatchesOf(tg[k].team))
       /\ Len(sd) = Cardinality(TeamsOf)
       /\ \A k \in 1..Len(sd) :
             /\ sd[k].team \in TeamsOf
             /\ \A l \in 1..Len(sd) : sd[l].team = sd[k].team => l = k
             /\ sd[k].matches = MatchesOf(sd[k].team)
             /\ sd[k].xG = NumDiv(SumsOfTeam(sd[k].team, Len(data)).xG, sd[k].matches)
       /\ matchOutcomes(data).total = Len(data)
       /\ Range(availableWeeks(data)) = WeeksOf(all)

\* A team is selected and compared, the last week is active, and scatterData
\* covers the three teams of the dataset.
C18_Witness ==
    /\ data = WeeksExample
    /\ selectedTeam = "A"
    /\ compareTeam = "B"
    /\ activeWeek = Int2Num(3)
    /\ {scatterData(data).value[k].team : k \in 1..Len(scatterData(data).value)}
           = {"A", "B", "C"}

\* Neither side of the score of the row is a number.
MalformedOnBothSides(row) ==
    LET parts == Split(row.Score, EnDash)
    IN /\ ~ParseScoreThrows(row.Score)
       /\ parseInt(ArrayAt(parts, 0)).nan
       /\ parseInt(ArrayAt(parts, 1)).nan

\* The rows of d whose score is not malformed on both sides, in the order of d.
RECURSIVE WithoutMalformed(_)
WithoutMalformed(d) ==
    IF d = <<>> THEN <<>>
    ELSE (IF MalformedOnBothSides(Head(d)) THEN <<>> ELSE <<Head(d)>>)
         \o WithoutMalformed(Tail(d))

\* C19: matchOutcomes puts every match in exactly one category by its parsed
\* goals: home goals greater a home win, less an away win, equal a draw; a match
\* whose score is malformed on both sides is a 0-0 draw, nothing is thrown, and
\* the other matches are counted as they are without it.
C19_OutcomeClassification ==
    LET o == matchOutcomes(data)
        goals == [i \in 1..Len(data) |-> parseScore(data[i].Score)]
        home == {i \in 1..Len(data) : NumGt(goals[i].homeGoals, goals[i].awayGoals)}
        away == {i \in 1..Len(data) : NumLt(goals[i].homeGoals, goals[i].awayGoals)}
        level == {i \in 1..Len(data) : NumEq(goals[i].homeGoals, goals[i].awayGoals)}
        malformed == {i \in 1..Len(data) : MalformedOnBothSides(data[i])}
        rest == matchOutcomes(WithoutMalformed(data))
    IN /\ ~o.thrown
       /\ o.counts = <<Cardinality(home), Cardinality(away), Cardinality(level)>>
       /\ home \cup away \cup level = 1..Len(data)
       /\ home \cap away = {} /\ home \cap level = {} /\ away \cap level = {}
       /\ \A i \in malformed :
             /\ goals[i].homeGoals = Zero /\ goals[i].awayGoals = Zero
             /\ i \in level
       /\ o.counts = <<rest.counts[1], rest.counts[2],
                       rest.counts[3] + Cardinality(malformed)>>

\* A home win, a match without a readable score, and an away win: the
\* unreadable one is the only draw.
C19_Witness ==
    /\ Len(data) = 3
    /\ MalformedOnBothSides(data[2])
    /\ ~MalformedOnBothSides(data[1]) /\ ~MalformedOnBothSides(data[3])
    /\ matchOutcomes(data).counts = <<1, 1, 1>>
    /\ matchOutcomes(WithoutMalformed(data)).counts = <<1, 1, 0>>

\* The facts of a point of a series that belong to its match.
MatchFacts(point) ==
    [result |-> point.result, opponent |-> point.opponent, venue |-> point.venue,
     score |-> point.score]

\* The k-th point of s carries the facts of the k-th fixture of team in date
\* order, and they are the facts the point has when the fixture is the only
\* row of the dataset.
FactsOfOwnMatch(s, team) ==
    LET order == DateOrder(Fixtures(team))
    IN /\ Len(s) = Len(order)
       /\ \A k \in 1..Len(s) :
             LET row == data[order[k]]
                 sc == parseScore(row.Score)
                 atHome == row.Home = team
                 goalsFor == IF atHome THEN sc.homeGoals ELSE sc.awayGoals
                 goalsAgainst == IF atHome THEN sc.awayGoals ELSE sc.homeGoals
                 alone == ppgTimeseriesData(<<row>>, team, "").primaryTeam
             IN /\ s[k].result \in {"Win", "Draw", "Loss"}
                /\ s[k].result = "Win" <=> NumGt(goalsFor, goalsAgainst)
                /\ s[k].result = "Draw" <=> NumEq(goalsFor, goalsAgainst)
                /\ s[k].opponent = (IF atHome THEN row.Away ELSE row.Home)
                /\ s[k].venue \in {"Home", "Away"}
                /\ s[k].venue = "Home" <=> atHome
                /\ s[k].score = row.Score
                /\ Len(alone) = 1
                /\ MatchFacts(s[k]) = MatchFacts(alone[1])

\* C20: each point of a points-per-game series (the selected team's and the
\* comparison team's) carries the facts of its own match only: result is Win
\* exactly when the team's goals exceed the opponent's, Draw exactly when they
\* are equal, Loss otherwise; opponent is the other side; venue is Home exactly
\* when the team is the home side; they are what they would be were the match
\* the team's only one.
C20_PointFactsOfOwnMatch ==
    TruthyStr(selectedTeam) =>
        /\ FactsOfOwnMatch(PrimarySeries, selectedTeam)
        /\ TruthyStr(compareTeam) => FactsOfOwnMatch(CompareSeries, compareTeam)

\* A wins at home, wins away at C and loses at home to C: the second win of A
\* is a Win with the running total at 6, and C, compared, has a Loss at home
\* and then a Win away.
C20_Witness ==
    /\ selectedTeam = "A"
    /\ compareTeam = "C"
    /\ Len(PrimarySeries) = 3
    /\ [k \in 1..3 |-> PrimarySeries[k].result] = <<"Win", "Win", "Loss">>
    /\ [k \in 1..3 |-> PrimarySeries[k].venue] = <<"Home", "Away", "Home">>
    /\ [k \in 1..3 |-> PrimarySeries[k].opponent] = <<"B", "C", "C">>
    /\ [k \in 1..3 |-> PrimarySeries[k].points] = <<3, 6, 6>>
    /\ [k \in 1..2 |-> CompareSeries[k].result] = <<"Loss", "Win">>
    /\ [k \in 1..2 |-> CompareSeries[k].venue] = <<"Home", "Away">>

\* The least and the greatest week of the set S of weeks.
FirstWeek(S) == CHOOSE x \in S : \A y \in S : ~NumLt(y, x)
LastWeek(S) == CHOOSE x \in S : \A y \in S : ~NumGt(y, x)

\* The cyclic successor and predecessor of week w in the weeks S, in ascending
\* order; from a week outside S, the first and the last week of S.
WeekAfter(S, w) ==
    LET later == {x \in S : NumGt(x, w)}
    IN IF w \in S /\ later # {} THEN FirstWeek(later) ELSE FirstWeek(S)

WeekBefore(S, w) ==
    LET earlier == {x \in S : NumLt(x, w)}
    IN IF w \in S /\ earlier # {} THEN LastWeek(earlier) ELSE LastWeek(S)

\* The weeks in which the selected team has a fixture.
SelectedTeamWeeks == WeeksOf(Fixtures(selectedTeam))

\* The Previous and Next buttons are rendered.
ButtonsAvailable == TruthyStr(selectedTeam) /\ SelectedTeamWeeks # {}

\* C21: a click on Next or Previous happens only with a team selected that has
\* a fixture week, and sets the active week to a week of the team: Next to the
\* cyclic successor of the active week among the team's weeks, Previous to the
\* cyclic predecessor, wrapping around; from a week that is not one of the
\* team's, Next goes to the team's first week and Previous to its last.
C21_PrevNextCycle ==
    [][/\ ClickNext => /\ ButtonsAvailable
                        /\ activeWeek' \in SelectedTeamWeeks
                        /\ activeWeek' = WeekAfter(SelectedTeamWeeks, activeWeek)
       /\ ClickPrevious => /\ ButtonsAvailable
                            /\ activeWeek' \in SelectedTeamWeeks
                            /\ activeWeek' = WeekBefore(SelectedTeamWeeks, activeWeek)]_vars

\* A has fixtures in weeks 1, 2 and 3 and its last week is active, so that Next
\* wraps to week 1 and Previous goes to week 2.
C21_Witness ==
    /\ ButtonsAvailable
    /\ selectedTeam = "A"
    /\ SelectedTeamWeeks = {Int2Num(1), Int2Num(2), Int2Num(3)}
    /\ activeWeek = Int2Num(3)
    /\ WeekAfter(SelectedTeamWeeks, activeWeek) = Int2Num(1)
    /\ WeekBefore(SelectedTeamWeeks, activeWeek) = Int2Num(2)

\* A fixed dataset and a fixed selection on which the aggregators are run in
\* every state: A loses 0-2 at home to C, wins 2-1 at home against B and
\* draws 1-1 at B; B is selected and compared with A.
ProbeData == <<ParseLine(LineLoss), ParseLine(LineWin), ParseLine(LineDraw)>>
ProbeSelected == "B"
ProbeCompare == "A"

ProbePoint(score, date, venue, team, opponent, matches, points, ppg, result) ==
    [score |-> score, date |-> date, venue |-> venue, team |-> team,
     opponent |-> opponent, matches |-> matches, points |-> points, ppg |-> ppg,
     result |-> result]

ProbeSummary(team, matches, xG, xGA, goalsPerMatch, concededPerMatch, goalDiff) ==
    [team |-> team, matches |-> Int2Num(matches), xG |-> xG, xGA |-> xGA,
     goalsPerMatch |-> goalsPerMatch, concededPerMatch |-> concededPerMatch,
     goalDiff |-> goalDiff]

C23_DatasetReadOnly == [][data' = data]_vars

\* A dataset that is not in date order, rendered with no team selected (so
\* that the xG series is built from the dataset array itself) and with two
\* teams selected (so that both points-per-game sorts run).
C23_Witness ==
    /\ Len(data) = 3
    /\ SortRowsByDate(data) # data
    /\ selectedTeam = "A"
    /\ compareTeam = "B"
    /\ ~timeseriesSortReceiver("").isData
    /\ DataAfterRender(data, "", "") = data
    /\ DataAfterRender(data, selectedTeam, compareTeam) = data

\* C24: on the empty dataset nothing throws, the team goal-rate list, the xG
\* series, the xG/xGA team summary, both points-per-game series, the available
\* weeks and the selected team's weeks are empty, and the outcome counts are
\* all zero, whatever team is still selected or compared.
C24_EmptyDatasetEmptyViews ==
    data = <<>> =>
        LET ppg == ppgTimeseriesData(data, selectedTeam, compareTeam)
        IN /\ Mounted
           /\ ~AggregatorThrows
           /\ teams(data) = <<>>
           /\ teamGoals(data) = [thrown |-> FALSE, value |-> <<>>]
           /\ timeseriesData(data, selectedTeam) = <<>>
           /\ scatterData(data) = [thrown |-> FALSE, value |-> <<>>]
           /\ ~ppg.thrown /\ ppg.primaryTeam = <<>> /\ ppg.compareTeam = <<>>
           /\ availableWeeks(data) = <<>>
           /\ weeksWithSelectedTeam(data, selectedTeam) = <<>>
           /\ ~matchOutcomes(data).thrown
           /\ matchOutcomes(data).counts = <<0, 0, 0>>
           /\ matchOutcomes(data).total = 0

\* A file without a usable row has been uploaded while two teams of the
\* previous dataset were selected.
C24_Witness ==
    /\ data = <<>>
    /\ TruthyStr(selectedTeam)
    /\ TruthyStr(compareTeam)
    /\ error = ""
    /\ matchOutcomes(data).counts = <<0, 0, 0>>

\* C25: after any sequence of uploads, team selections, week-tab clicks and
\* Previous/Next clicks, when the dataset is not empty the active week is one of
\* its available weeks, so that the match table has a row to show.
C25_ActiveWeekAvailable ==
    data # <<>> =>
        /\ activeWeek \in Range(availableWeeks(data))
        /\ \E i \in 1..Len(data) : data[i].Wk = activeWeek

\* An uploaded dataset has replaced the default one while its week 2 was
\* active, and the first week of the new dataset is active.
C25_Witness ==
    /\ data # <<>>
    /\ data # defaultData
    /\ readers = <<>>
    /\ TruthyStr(selectedTeam)
    /\ activeWeek = availableWeeks(data)[1]
    /\ Len(availableWeeks(data)) > 1

\* C26: after any sequence of uploads and team selections the selected team is
\* '' (All Teams) or the name of a team of the current dataset.
C26_SelectedTeamInDataset ==
    selectedTeam = "" \/ selectedTeam \in Range(teams(data))

\* C27: after any sequence of team and compare-team selections a compare team
\* that is not '' differs from the selected team, so the two points-per-game
\* series are never those of one team.
C27_CompareTeamDiffers ==
    /\ compareTeam # "" => compareTeam # selectedTeam
    /\ LET ppg == ppgTimeseriesData(data, selectedTeam, compareTeam)
       IN \A k \in 1..Len(ppg.primaryTeam) : \A l \in 1..Len(ppg.compareTeam) :
             ppg.primaryTeam[k].team # ppg.compareTeam[l].team

\* The texts without a line break: they have fewer than two lines.
OneLineTexts == {t \in UploadTexts : \A i \in 1..Len(t) : SubSeq(t, i, i) # "\n"}

\* The step sets the error and keeps the dataset, the selection and the week.
OnlyErrorSet ==
    /\ error' # ""
    /\ UNCHANGED <<data, selectedTeam, compareTeam, activeWeek>>

\* C28: a rejected upload (no file chosen, a name that does not end in '.csv',
\* a text of fewer than two lines) sets the error and leaves the dataset, the
\* selected team, the compare team and the active week as they were; a
\* successful upload replaces the dataset and clears the error.  The steps are
\* told apart by the pending reads: a rejection by the handler leaves them
\* alone and changes the error, an accepted file adds a read, and onload
\* removes the read whose text it handles.
C28_RejectedUploadKeepsState ==
    [][/\ (readers' = readers /\ error' # error) => OnlyErrorSet
       /\ Len(readers') > Len(readers) =>
             UNCHANGED <<data, error, selectedTeam, compareTeam, activeWeek>>
       /\ Len(readers') < Len(readers) =>
             \E k \in 1..Len(readers) :
                /\ readers' = SubSeq(readers, 1, k - 1)
                                  \o SubSeq(readers, k + 1, Len(readers))
                /\ IF readers[k] \in OneLineTexts
                   THEN OnlyErrorSet
                   ELSE /\ data' = OnloadParse[readers[k]].rows
                        /\ error' = ""
                        /\ UNCHANGED <<selectedTeam, compareTeam>>]_vars

\* The header without a line break has been uploaded and rejected while two
\* teams were selected and week 2 of the default dataset was active.
C28_Witness ==
    /\ error = "CSV file is empty or contains only headers"
    /\ readers = <<>>
    /\ data = defaultData
    /\ selectedTeam = "Liverpool"
    /\ compareTeam = "Manchester Utd"
    /\ activeWeek = Int2Num(2)

\* C29: when two uploads overlap, once both reads have completed the dataset
\* is that of the file chosen last, and with it the list of available weeks,
\* whatever the order in which the reads complete.
C29_LastChosenFileWins ==
    readers = <<>> =>
        \E last \in ChosenLast :
            /\ data = OnloadParse[last].rows
            /\ availableWeeks(data) = SortedWeeks(OnloadParse[last].rows)

\* Over the entries s of the team summary: the sum of matches, of goalsPerMatch
\* * matches, of concededPerMatch * matches and of goalDiff * matches.
RECURSIVE SummaryTotals(_)
SummaryTotals(s) ==
    IF s = <<>>
    THEN [matches |-> Zero, goalsFor |-> Zero, goalsAgainst |-> Zero, diff |-> Zero]
    ELSE LET rest == SummaryTotals(Tail(s))
             e == Head(s)
         IN [matches |-> NumAdd(rest.matches, e.matches),
             goalsFor |-> NumAdd(rest.goalsFor, NumMul(e.goalsPerMatch, e.matches)),
             goalsAgainst |->
                 NumAdd(rest.goalsAgainst, NumMul(e.concededPerMatch, e.matches)),
             diff |-> NumAdd(rest.diff, NumMul(e.goalDiff, e.matches))]

\* C30: in the xG/xGA team summary the matches of all teams sum to twice the
\* number of matches, the goals for of all teams sum to the goals against of
\* all teams, and the sum of goalDiff * matches over all teams is zero.
C30_SummaryTotalsBalance ==
    LET totals == SummaryTotals(scatterData(data).value)
    IN /\ totals.matches = Int2Num(2 * Len(data))
       /\ totals.goalsFor = totals.goalsAgainst
       /\ totals.goalsFor = GoalsScored
       /\ totals.diff = Zero

\* Three matches with eight goals between them, and a team with a positive
\* goal difference.
C30_Witness ==
    /\ Len(data) = 3
    /\ SummaryTotals(scatterData(data).value).matches = Int2Num(6)
    /\ SummaryTotals(scatterData(data).value).goalsFor = Int2Num(8)
    /\ \E k \in 1..Len(scatterData(data).value) :
          NumGt(scatterData(data).value[k].goalDiff, Zero)

====
